---------------------------- MODULE Spec2Model ----------------------------
(***************************************************************************)
(* A model of the browser-automation core of the Prometheus merit-claims   *)
(* repository: SafariAutomation / MTOAutomation (src/safari_automation.py) *)
(* and the verifier pipeline's verify_availability_mto                     *)
(* (src/merit_claims_verifier.py).                                         *)
(*                                                                         *)
(* Text is modelled by TLA+ strings; Python's `in`, lower() and str() are  *)
(* computed character by character.  The browser is the environment: what  *)
(* each of its calls returns, and whether it raises, is chosen             *)
(* nondeterministically.                                                   *)
(***************************************************************************)
EXTENDS Integers, Sequences, FiniteSets, TLC

VARIABLES
    snapshot,    \* the arguments of one _determine_page_state call
    pageState,   \* what that call returned ("pending" before the call)
    dom,         \* the page's elements in document order, for one selector lookup
    findFaults,  \* the candidates whose find_element call fails in the browser
    findResult,  \* what _find_element_by_selectors did (pc "pending" before the call)
    browser,     \* the page loaded in the browser and the calls that fail, for one analysis
    analysis,    \* what analyze_page did (pc "pending" before the call)
    reanalysis,  \* what a second analyze_page of the same page did
    fillArgs,    \* the page, the arguments and the browser's behaviour for one form fill
    fill,        \* what fill_login_form did (pc "pending" before the call)
    logged_in,   \* MTOAutomation._logged_in
    pc,          \* where the running MTOAutomation call stands ("idle": none runs)
    loginRet,    \* how the last login() ended: "none", "true", "false" or "raised"
    postAnalysis,\* login's local analysis after the form was submitted
    loginSeen,   \* what the last login() call met, kept until the batch starts
    tenure_ids,  \* the argument of verify_claims_batch
    idx,         \* the loop index of verify_claims_batch (from 1)
    results,     \* the results list of verify_claims_batch
    batchRet,    \* how verify_claims_batch ended: "none", "running", "returned", "raised"
    result,      \* search_tenure's local result dict
    search_dom,  \* the elements of the search page the running search works on
    search_field,\* search_tenure's local search_field (a position in search_dom)
    log,         \* what the batch did to the browser, in order
    vcall,       \* the call of verify_availability_mto: the environment variables
                 \* and the frame passed
    vpc,         \* where verify_availability_mto stands ("start" before the call)
    df_expired,  \* its argument, a frame of rows
    vlogin,      \* how its login went: "none", "no_credentials", "exception",
                 \* "error_page" or "ok"
    sessions,    \* the Safari sessions it created, each "open", "quit" or "quit_failed"
    verified,    \* its list of verified rows
    row_i,       \* the position of its loop in the frame (from 1)
    vlog,        \* for each row searched, whether the search raised
    vret,        \* how it ended: "none", "returned" or "raised"
    out,         \* the frame it returned
    labelArgs,   \* the element, the page's labels and the failing call of one label lookup
    labelResult, \* what _find_label_for_element did (pc "pending" before the call)
    object,      \* the automation object: "none", "constructed" or "failed"
    session,     \* its browser session: "absent", "open" or "released"
    history,     \* the calls made on the object and how each ended
    scan,        \* one _detect_elements call: the page's elements, then what it returned
    autopilot,   \* one verify_availability_mto call of the autopilot script: the
                 \* frame, then how the login ended, what the site answered, the result
    merit        \* one confirm_merit_sedar call: the frame, then the rows it returned

classifyVars == <<snapshot, pageState>>
findVars     == <<dom, findFaults, findResult>>
analyzeVars  == <<browser, analysis, reanalysis>>
fillVars     == <<fillArgs, fill>>
loginVars    == <<logged_in, loginRet, postAnalysis, loginSeen>>
batchVars    == <<tenure_ids, idx, results, batchRet, result, search_dom, search_field, log>>
mtoVars      == <<pc, loginVars, batchVars>>
verifierVars == <<vcall, vpc, df_expired, vlogin, sessions, verified, row_i, vlog, vret, out>>

labelVars    == <<labelArgs, labelResult>>
sessionVars  == <<object, session, history>>
restVars     == <<scan, autopilot, merit>>

vars == <<snapshot, pageState, dom, findFaults, findResult, analyzeVars, fillArgs, fill,
          mtoVars, verifierVars, labelVars, sessionVars, restVars>>

---------------------------------------------------------------------------
(* Strings *)

UpperAlphabet == "ABCDEFGHIJKLMNOPQRSTUVWXYZ"
LowerAlphabet == "abcdefghijklmnopqrstuvwxyz"

\* the lower-case letter of every upper-case letter
LowerOfUpper ==
    [c \in {SubSeq(UpperAlphabet, i, i) : i \in 1..Len(UpperAlphabet)} |->
        LET i == CHOOSE k \in 1..Len(UpperAlphabet) : SubSeq(UpperAlphabet, k, k) = c
        IN  SubSeq(LowerAlphabet, i, i)]

\* one character of str.lower()
LowerChar(c) == IF c \in DOMAIN LowerOfUpper THEN LowerOfUpper[c] ELSE c

\* str.lower()
RECURSIVE Lower(_)
Lower(s) ==
    IF Len(s) = 0 THEN ""
    ELSE IF Len(s) = 1 THEN LowerChar(s)
    ELSE LET h == Len(s) \div 2
         IN  Lower(SubSeq(s, 1, h)) \o Lower(SubSeq(s, h + 1, Len(s)))

\* Python's `needle in hay` on strings
Contains(needle, hay) ==
    \E i \in 1..(Len(hay) - Len(needle) + 1) :
        SubSeq(hay, i, i + Len(needle) - 1) = needle

\* str(inp) of the dict _detect_forms builds for one input
StrInput(inp) ==
    "{'type': '" \o inp.type \o "', 'name': '" \o inp.name \o
    "', 'id': '" \o inp.id \o "', 'placeholder': '" \o inp.placeholder \o "'}"

\* the elements of a sequence
Range(seq) == {seq[i] : i \in 1..Len(seq)}

\* all sequences over S of length at most n
SeqsUpTo(S, n) == UNION {[1..k -> S] : k \in 0..n}

---------------------------------------------------------------------------
(* PageState and _determine_page_state *)

LOGIN_PAGE    == "login_page"
LOGIN_SUCCESS == "login_success"
LOGIN_ERROR   == "login_error"
SEARCH_PAGE   == "search_page"
RESULTS_PAGE  == "results_page"
ERROR_PAGE    == "error_page"
UNKNOWN       == "unknown"

PageState ==
    {LOGIN_PAGE, LOGIN_SUCCESS, LOGIN_ERROR, SEARCH_PAGE, RESULTS_PAGE,
     ERROR_PAGE, UNKNOWN}

LoginFormIndicators == <<"password", "userid", "username", "login">>
LoginUrlIndicators  == <<"login", "signin", "logon", "bceid">>

\* has_login_form: some input of some form whose str(), lower-cased, contains
\* one of the indicators
HasLoginForm(forms) ==
    \E f \in 1..Len(forms) :
        \E k \in 1..Len(LoginFormIndicators) :
            \E i \in 1..Len(forms[f].inputs) :
                Contains(LoginFormIndicators[k], Lower(StrInput(forms[f].inputs[i])))

\* is_login_url
IsLoginUrl(url) ==
    \E k \in 1..Len(LoginUrlIndicators) : Contains(LoginUrlIndicators[k], Lower(url))

\* a mutant: the success test is made before the error test
DeterminePageStateSuccessFirst(url, title, forms, errors, successes) ==
    LET hasLoginForm == HasLoginForm(forms)
        isLoginUrl   == IsLoginUrl(url)
    IN  IF Len(successes) > 0 THEN LOGIN_SUCCESS
        ELSE IF Len(errors) > 0
             THEN IF hasLoginForm \/ isLoginUrl THEN LOGIN_ERROR ELSE ERROR_PAGE
        ELSE IF hasLoginForm \/ isLoginUrl THEN LOGIN_PAGE
        ELSE IF Contains("search", Lower(url)) \/ Contains("search", Lower(title))
             THEN SEARCH_PAGE
        ELSE IF Contains("result", Lower(url)) \/ Contains("result", Lower(title))
             THEN RESULTS_PAGE
        ELSE UNKNOWN

\* a mutant: the URL and the title are not lower-cased, and the result test is
\* made before the search test
DeterminePageStateResultFirst(url, title, forms, errors, successes) ==
    LET hasLoginForm == HasLoginForm(forms)
        isLoginUrl   == IsLoginUrl(url)
    IN  IF Len(errors) > 0
        THEN IF hasLoginForm \/ isLoginUrl THEN LOGIN_ERROR ELSE ERROR_PAGE
        ELSE IF Len(successes) > 0 THEN LOGIN_SUCCESS
        ELSE IF hasLoginForm \/ isLoginUrl THEN LOGIN_PAGE
        ELSE IF Contains("result", url) \/ Contains("result", title)
             THEN RESULTS_PAGE
        ELSE IF Contains("search", url) \/ Contains("search", title)
             THEN SEARCH_PAGE
        ELSE UNKNOWN

\* a mutant: which error state it is depends on the message that comes first
DeterminePageStateByFirstMessage(url, title, forms, errors, successes) ==
    IF Len(errors) > 0
    THEN IF Contains("password", errors[1]) THEN LOGIN_ERROR ELSE ERROR_PAGE
    ELSE IF Len(successes) > 0 THEN LOGIN_SUCCESS
    ELSE IF HasLoginForm(forms) \/ IsLoginUrl(Lower(url)) THEN LOGIN_PAGE
    ELSE UNKNOWN

\* a mutant: only a login form, not the URL, turns an error page into LoginError
\* and a plain page into LoginPage
DeterminePageStateFormOnly(url, title, forms, errors, successes) ==
    LET url_lower    == Lower(url)
        title_lower  == Lower(title)
        hasLoginForm == HasLoginForm(forms)
    IN  IF Len(errors) > 0
        THEN IF hasLoginForm THEN LOGIN_ERROR ELSE ERROR_PAGE
        ELSE IF Len(successes) > 0 THEN LOGIN_SUCCESS
        ELSE IF hasLoginForm THEN LOGIN_PAGE
        ELSE IF Contains("search", url_lower) \/ Contains("search", title_lower)
             THEN SEARCH_PAGE
        ELSE IF Contains("result", url_lower) \/ Contains("result", title_lower)
             THEN RESULTS_PAGE
        ELSE UNKNOWN

\* _determine_page_state (its text argument is not read by the code)
DeterminePageState(url, title, forms, errors, successes) ==
    LET url_lower    == Lower(url)
        title_lower  == Lower(title)
        hasLoginForm == HasLoginForm(forms)
        isLoginUrl   == IsLoginUrl(url)
    IN  IF Len(errors) > 0
        THEN IF hasLoginForm \/ isLoginUrl THEN LOGIN_ERROR ELSE ERROR_PAGE
        ELSE IF Len(successes) > 0 THEN LOGIN_SUCCESS
        ELSE IF hasLoginForm \/ isLoginUrl THEN LOGIN_PAGE
        ELSE IF Contains("search", url_lower) \/ Contains("search", title_lower)
             THEN SEARCH_PAGE
        ELSE IF Contains("result", url_lower) \/ Contains("result", title_lower)
             THEN RESULTS_PAGE
        ELSE UNKNOWN

---------------------------------------------------------------------------
(* Page content the checks draw from *)

MaxForms == 2

SampleUrls ==
    {"bceid.ca/clp/accountlogon.aspx", "mto.ca/mtov/home.do",
     "mto.ca/mtov/tenureSearch.do", "mto.ca/mtov/Results.do",
     "mto.ca/SignIn?next=result"}

SampleTitles == {"", "Mineral Titles Online", "Search Results", "Tenure Result"}

PasswordInput ==
    [type |-> "password", name |-> "txtPassword", id |-> "txtPassword", placeholder |-> ""]
TenureInput ==
    [type |-> "text", name |-> "tenureNumber", id |-> "", placeholder |-> ""]
PlaceholderInput ==
    [type |-> "text", name |-> "q", id |-> "", placeholder |-> "Username"]

\* forms as _detect_forms returns them (the keys _determine_page_state reads)
SampleForms ==
    {[inputs |-> <<>>],
     [inputs |-> <<TenureInput>>],
     [inputs |-> <<TenureInput, PasswordInput>>],
     [inputs |-> <<PlaceholderInput>>]}

SampleErrors    == {<<>>, <<"invalid password.">>}
SampleSuccesses == {<<>>, <<"welcome back.">>}

Snapshots ==
    [url : SampleUrls, title : SampleTitles, forms : SeqsUpTo(SampleForms, MaxForms),
     errors : SampleErrors, successes : SampleSuccesses]

---------------------------------------------------------------------------
(* The page's elements and CSS selectors *)

MaxDom == 2

\* a CSS selector of the forms the code uses: tag, tag[attr='val'], tag[attr*='val']
Sel(tag, attr, op, val) == [tag |-> tag, attr |-> attr, op |-> op, val |-> val]

\* whether element e matches CSS selector sel
Matches(sel, e) ==
    /\ e.tag = sel.tag
    /\ CASE sel.op = ""   -> TRUE
         [] sel.op = "="  -> e[sel.attr] = sel.val
         [] sel.op = "*=" -> Contains(sel.val, e[sel.attr])

\* driver.find_element(By.CSS_SELECTOR, sel): the position in the document of the
\* first element that matches, 0 when none does (NoSuchElementException)
FirstMatch(sel, elements) ==
    IF \E p \in 1..Len(elements) : Matches(sel, elements[p])
    THEN CHOOSE p \in 1..Len(elements) :
            /\ Matches(sel, elements[p])
            /\ \A q \in 1..(p - 1) : ~Matches(sel, elements[q])
    ELSE 0

\* what is_displayed() and is_enabled() answer for an element; a stale element
\* raises StaleElementReferenceException instead
Conditions ==
    {[displayed |-> TRUE,  enabled |-> TRUE,  stale |-> FALSE],
     [displayed |-> FALSE, enabled |-> TRUE,  stale |-> FALSE],
     [displayed |-> TRUE,  enabled |-> FALSE, stale |-> FALSE],
     [displayed |-> TRUE,  enabled |-> TRUE,  stale |-> TRUE]}

Element(tag, type, name, id, c) ==
    [tag |-> tag, type |-> type, name |-> name, id |-> id,
     displayed |-> c.displayed, enabled |-> c.enabled, stale |-> c.stale]

\* the elements a search page may hold
SearchPageElements ==
    {Element("input", "text", "tenureNumber", "", c) : c \in Conditions}
    \cup {Element("input", "text", "", "tenureNumber", c) : c \in Conditions}
    \cup {Element("input", "text", "q", "q", c) : c \in Conditions}
    \cup {Element("input", "submit", "", "", c) : c \in Conditions}

\* the fallback candidates of search_tenure for the search field
SearchFieldSelectors ==
    <<Sel("input", "name", "=", "tenureNumber"),
      Sel("input", "id", "=", "tenureNumber"),
      Sel("input", "type", "=", "text")>>

NoElement == 0

\* a mutant: the first match of a candidate is returned without asking whether it
\* is displayed and enabled
RECURSIVE FindFromUnchecked(_, _, _, _, _)
FindFromUnchecked(selectors, elements, faults, k, probed) ==
    IF k > Len(selectors)
    THEN [ret |-> NoElement, raised |-> FALSE, probed |-> probed]
    ELSE IF k \in faults
    THEN [ret |-> NoElement, raised |-> TRUE, probed |-> Append(probed, k)]
    ELSE LET m == FirstMatch(selectors[k], elements)
         IN  IF m = 0
             THEN FindFromUnchecked(selectors, elements, faults, k + 1, Append(probed, k))
             ELSE [ret |-> m, raised |-> FALSE, probed |-> Append(probed, k)]

FindElementUnchecked(selectors, elements, faults) ==
    FindFromUnchecked(selectors, elements, faults, 1, <<>>)

\* a mutant: every candidate is looked up in the browser before one is chosen
FindElementProbeAll(selectors, elements, faults) ==
    LET usable(k) ==
            LET m == FirstMatch(selectors[k], elements)
            IN  m # 0 /\ elements[m].displayed /\ elements[m].enabled
        all == [k \in 1..Len(selectors) |-> k]
    IN  IF \E k \in 1..Len(selectors) : usable(k)
        THEN LET k == CHOOSE k \in 1..Len(selectors) :
                        usable(k) /\ \A j \in 1..(k - 1) : ~usable(j)
             IN  [ret |-> FirstMatch(selectors[k], elements), raised |-> FALSE,
                  probed |-> all]
        ELSE [ret |-> NoElement, raised |-> FALSE, probed |-> all]

\* a mutant: every match of a candidate is probed, and the first usable one is
\* returned
FindElementAnyUsableMatch(selectors, elements, faults) ==
    LET usableMatch(k) ==
            {p \in 1..Len(elements) :
                /\ Matches(selectors[k], elements[p])
                /\ ~elements[p].stale /\ elements[p].displayed /\ elements[p].enabled}
        found == {k \in 1..Len(selectors) : usableMatch(k) # {}}
    IN  IF faults # {}
        THEN [ret |-> NoElement, raised |-> TRUE, probed |-> <<>>]
        ELSE IF found = {}
        THEN [ret |-> NoElement, raised |-> FALSE,
              probed |-> [k \in 1..Len(selectors) |-> k]]
        ELSE LET k == CHOOSE j \in found : \A i \in found : j <= i
             IN  [ret |-> CHOOSE p \in usableMatch(k) : \A q \in usableMatch(k) : p <= q,
                  raised |-> FALSE, probed |-> [j \in 1..k |-> j]]

\* the loop of _find_element_by_selectors from candidate k on; probed lists the
\* candidates already looked up in the browser
RECURSIVE FindFrom(_, _, _, _, _)
FindFrom(selectors, elements, faults, k, probed) ==
    IF k > Len(selectors)
    THEN [ret |-> NoElement, raised |-> FALSE, probed |-> probed]
    ELSE IF k \in faults
    THEN \* find_element raises something other than NoSuchElementException
         [ret |-> NoElement, raised |-> TRUE, probed |-> Append(probed, k)]
    ELSE LET m == FirstMatch(selectors[k], elements)
         IN  IF m = 0
             THEN \* NoSuchElementException: continue
                  FindFrom(selectors, elements, faults, k + 1, Append(probed, k))
             ELSE IF elements[m].stale
             THEN [ret |-> NoElement, raised |-> TRUE, probed |-> Append(probed, k)]
             ELSE IF elements[m].displayed /\ elements[m].enabled
             THEN [ret |-> m, raised |-> FALSE, probed |-> Append(probed, k)]
             ELSE FindFrom(selectors, elements, faults, k + 1, Append(probed, k))

\* _find_element_by_selectors: ret is the position of the element returned
\* (NoElement for None), raised whether an exception left the function
FindElementBySelectors(selectors, elements, faults) ==
    FindFrom(selectors, elements, faults, 1, <<>>)

---------------------------------------------------------------------------
(* analyze_page and the detectors it calls *)

ERROR_PATTERNS ==
    <<"error", "invalid", "incorrect", "failed", "denied", "wrong", "expired",
      "locked", "disabled", "unauthorized">>

SUCCESS_PATTERNS ==
    <<"welcome", "success", "logged in", "authenticated", "dashboard", "home",
      "account">>

MatchesPerPattern == 3
MessagesCap == 5
ElementsPerKind == 20

WordChars == "abcdefghijklmnopqrstuvwxyzABCDEFGHIJKLMNOPQRSTUVWXYZ0123456789_"

\* the regular expression's \b at the gap before position i of text (1..Len+1)
WordBoundary(text, i) ==
    LET before == i > 1 /\ Contains(SubSeq(text, i - 1, i - 1), WordChars)
        after  == i <= Len(text) /\ Contains(SubSeq(text, i, i), WordChars)
    IN  before # after

\* the end of the match of \bpattern\b[^.]*\.? that starts at i, 0 when none does
MatchEnd(pattern, text, i) ==
    LET n == Len(pattern)
    IN  IF /\ i + n - 1 <= Len(text)
           /\ Lower(SubSeq(text, i, i + n - 1)) = pattern
           /\ WordBoundary(text, i)
           /\ WordBoundary(text, i + n)
        THEN IF \E j \in (i + n)..Len(text) : SubSeq(text, j, j) = "."
             THEN CHOOSE j \in (i + n)..Len(text) :
                    /\ SubSeq(text, j, j) = "."
                    /\ \A q \in (i + n)..(j - 1) : SubSeq(text, q, q) # "."
             ELSE Len(text)
        ELSE 0

\* re.findall(rf'\b{pattern}\b[^.]*\.?', text, re.IGNORECASE) from position i on
RECURSIVE FindAll(_, _, _)
FindAll(pattern, text, i) ==
    IF i > Len(text) THEN <<>>
    ELSE LET e == MatchEnd(pattern, text, i)
         IN  IF e = 0 THEN FindAll(pattern, text, i + 1)
             ELSE <<SubSeq(text, i, e)>> \o FindAll(pattern, text, e + 1)

Min(a, b) == IF a < b THEN a ELSE b

\* the messages list of _detect_messages before de-duplication
RECURSIVE CollectMessages(_, _, _)
CollectMessages(text, patterns, k) ==
    IF k > Len(patterns) THEN <<>>
    ELSE LET matches == FindAll(patterns[k], text, 1)
         IN  SubSeq(matches, 1, Min(MatchesPerPattern, Len(matches)))
                 \o CollectMessages(text, patterns, k + 1)

\* the lists list(S) may be: S in any iteration order
RECURSIVE Orders(_)
Orders(S) ==
    IF S = {} THEN {<<>>}
    ELSE UNION {{<<x>> \o rest : rest \in Orders(S \ {x})} : x \in S}

\* _detect_messages: list(set(messages))[:5], the order of a set being any
DetectMessages(text, patterns) ==
    {SubSeq(l, 1, Min(MessagesCap, Len(l))) :
        l \in Orders(Range(CollectMessages(text, patterns, 1)))}

\* get_attribute(..) or default
OrDefault(v, default) == IF v = "" THEN default ELSE v

\* the dict _detect_forms builds for one form; "" stands for a missing attribute
FormData(form) ==
    [inputs |-> [i \in 1..Len(form.inputs) |->
                    [type        |-> OrDefault(form.inputs[i].type, "text"),
                     name        |-> form.inputs[i].name,
                     id          |-> form.inputs[i].id,
                     placeholder |-> form.inputs[i].placeholder]]]

\* _detect_forms: an exception inside is swallowed and the forms read before it
\* are returned; here the lookup of the forms itself is what may fail
DetectForms(page, faults) ==
    IF "forms" \in faults THEN <<>>
    ELSE [f \in 1..Len(page.forms) |-> FormData(page.forms[f])]

\* find_elements for one kind: the elements of that tag in document order, the
\* inputs of type hidden left out (every a element of the model has an href)
RECURSIVE SelectElements(_, _)
SelectElements(seq, kind) ==
    IF Len(seq) = 0 THEN <<>>
    ELSE (IF seq[1].tag = kind /\ ~(kind = "input" /\ seq[1].type = "hidden")
          THEN <<seq[1]>> ELSE <<>>)
            \o SelectElements(SubSeq(seq, 2, Len(seq)), kind)

ElementKinds == <<"input", "button", "a", "select", "textarea">>
KindNames    == <<"input", "button", "link", "select", "textarea">>

\* the PageElements of one kind: at most ElementsPerKind of them are read, a
\* stale one is skipped
RECURSIVE PageElementsOf(_, _)
PageElementsOf(found, name) ==
    IF Len(found) = 0 THEN <<>>
    ELSE (IF found[1].stale THEN <<>>
          ELSE <<[element_type |-> name,
                  identifier   |-> OrDefault(found[1].id, found[1].name),
                  visible      |-> found[1].displayed,
                  interactable |-> found[1].enabled]>>)
            \o PageElementsOf(SubSeq(found, 2, Len(found)), name)

\* a mutant: every element found is read, however many there are
RECURSIVE DetectElementsUncapped(_, _)
DetectElementsUncapped(elements, k) ==
    IF k > Len(ElementKinds) THEN <<>>
    ELSE PageElementsOf(SelectElements(elements, ElementKinds[k]), KindNames[k])
            \o DetectElementsUncapped(elements, k + 1)

RECURSIVE DetectElementsFrom(_, _)
DetectElementsFrom(elements, k) ==
    IF k > Len(ElementKinds) THEN <<>>
    ELSE LET found == SelectElements(elements, ElementKinds[k])
         IN  PageElementsOf(SubSeq(found, 1, Min(ElementsPerKind, Len(found))), KindNames[k])
                \o DetectElementsFrom(elements, k + 1)

\* _detect_elements: an exception other than a stale element is swallowed; here
\* the lookup of the elements itself is what may fail
DetectElements(page, faults) ==
    IF "elements" \in faults THEN <<>> ELSE DetectElementsFrom(page.elements, 1)

\* the browser calls of analyze_page, in the order it makes them; handler_url is
\* the read of driver.current_url in the except clause
AnalyzeCalls == <<"current_url", "title", "body", "text">>
AnalyzeSites == Range(AnalyzeCalls) \cup {"forms", "elements", "handler_url"}

\* str(e) of the exception a browser call raises
ExcText(site) == "Message: " \o site \o " failed"

\* what analyze_page may do on a page when the calls in faults raise: either
\* raised is FALSE and the record is the PageAnalysis returned, or raised is TRUE
\* and exc is the text of the exception that left the function
AnalyzePage(page, faults) ==
    IF \E k \in 1..Len(AnalyzeCalls) : AnalyzeCalls[k] \in faults
    THEN LET k == CHOOSE k \in 1..Len(AnalyzeCalls) :
                    /\ AnalyzeCalls[k] \in faults
                    /\ \A j \in 1..(k - 1) : AnalyzeCalls[j] \notin faults
         IN  IF "handler_url" \in faults
             THEN {[raised |-> TRUE, exc |-> ExcText("handler_url")]}
             ELSE {[raised |-> FALSE, state |-> UNKNOWN, url |-> page.url, title |-> "",
                    elements |-> <<>>, forms |-> <<>>,
                    error_messages |-> <<ExcText(AnalyzeCalls[k])>>,
                    success_messages |-> <<>>, raw_text |-> ""]}
    ELSE LET raw_text == Lower(page.text)
             forms    == DetectForms(page, faults)
             elements == DetectElements(page, faults)
         IN  {[raised |-> FALSE,
               state |-> DeterminePageState(page.url, page.title, forms, errors, successes),
               url |-> page.url, title |-> page.title, elements |-> elements,
               forms |-> forms, error_messages |-> errors,
               success_messages |-> successes,
               raw_text |-> SubSeq(raw_text, 1, Min(1000, Len(raw_text)))] :
                  errors \in DetectMessages(raw_text, ERROR_PATTERNS),
                  successes \in DetectMessages(raw_text, SUCCESS_PATTERNS)}

---------------------------------------------------------------------------
(* _find_label_for_element *)

MaxLabels == 2

\* the label elements of a page, in document order: what each is for, and its text
PageLabels ==
    SeqsUpTo({[for |-> f, text |-> t] : f \in {"user", "other"}, t \in {"User ID", ""}},
             MaxLabels)

\* an element whose label is looked up: its id, the texts of the label elements
\* among its ancestors in document order, and its placeholder
LabelledElements ==
    [id : {"", "user"}, ancestors : SeqsUpTo({"Name", ""}, MaxLabels),
     placeholder : {"", "Enter user"}]

\* the browser calls of _find_label_for_element that may raise
LabelSites ==
    {"get_id", "find_labels", "label_text", "find_ancestor", "ancestor_text",
     "get_placeholder"}

\* driver.find_elements(By.CSS_SELECTOR, "label[for='<id>']")
LabelsFor(id, labels) == SelectSeq(labels, LAMBDA l : l.for = id)

\* the value _find_label_for_element returns: a text, or None
LabelText(text) == [none |-> FALSE, text |-> text]
NoLabel == [none |-> TRUE, text |-> ""]

\* a mutant: the placeholder is looked at first
FindLabelPlaceholderFirst(element, labels, failing) ==
    IF element.placeholder # "" THEN LabelText(element.placeholder)
    ELSE IF element.id # "" /\ Len(LabelsFor(element.id, labels)) > 0
    THEN LabelText(LabelsFor(element.id, labels)[1].text)
    ELSE IF Len(element.ancestors) > 0 THEN LabelText(element.ancestors[1])
    ELSE NoLabel

\* _find_label_for_element: the label that is for the element's id, else the
\* first label among its ancestors, else its placeholder; the first of them that
\* is there is returned, be its text empty; an exception of any call gives None
FindLabelForElement(element, labels, failing) ==
    IF failing = "get_id" THEN NoLabel
    ELSE IF element.id # "" /\ failing = "find_labels" THEN NoLabel
    ELSE IF element.id # "" /\ Len(LabelsFor(element.id, labels)) > 0
    THEN IF failing = "label_text" THEN NoLabel
         ELSE LabelText(LabelsFor(element.id, labels)[1].text)
    ELSE IF failing = "find_ancestor" THEN NoLabel
    ELSE IF Len(element.ancestors) > 0
    THEN IF failing = "ancestor_text" THEN NoLabel
         ELSE LabelText(element.ancestors[1])
    ELSE IF failing = "get_placeholder" THEN NoLabel
    ELSE IF element.placeholder # "" THEN LabelText(element.placeholder)
    ELSE NoLabel

---------------------------------------------------------------------------
(* Pages the browser may show *)

UserIdInput ==
    [type |-> "", name |-> "txtUserId", id |-> "txtUserId", placeholder |-> ""]

Usable == [displayed |-> TRUE, enabled |-> TRUE, stale |-> FALSE]
Stale  == [displayed |-> TRUE, enabled |-> TRUE, stale |-> TRUE]

LoginForm == [inputs |-> <<UserIdInput, PasswordInput>>]

LoginPageElements ==
    <<Element("input", "", "txtUserId", "txtUserId", Usable),
      Element("input", "password", "txtPassword", "txtPassword", Usable),
      Element("input", "submit", "btnSubmit", "", Usable)>>

Page(url, title, text, forms, elements) ==
    [url |-> url, title |-> title, text |-> text, forms |-> forms, elements |-> elements]

MTO_LOGIN_URL ==
    "https://www.bceid.ca/clp/accountlogon.aspx?type=0"
    \o "&appurl=https%3A%2F%2Fwww.mtonline.gov.bc.ca%2Fmtov%2Fhome.do"
    \o "&servicecreds=MTOM&appname=MTO"

LoginPage ==
    Page(MTO_LOGIN_URL, "Log in", "Enter your user ID", <<LoginForm>>, LoginPageElements)
LoginErrorPage ==
    Page(MTO_LOGIN_URL, "Log in", "Invalid user ID. Invalid password.", <<LoginForm>>,
         LoginPageElements)
HomePage ==
    Page("https://www.MTOnline.gov.bc.ca/mtov/home.do", "Mineral Titles Online",
         "Welcome back. Tenures", <<>>,
         <<Element("a", "", "", "lnkSearch", Usable), Element("a", "", "", "", Stale)>>)
PortalPage ==
    Page("https://portal.gov.bc.ca/landing", "Portal", "Welcome to your Account", <<>>, <<>>)
SearchPage ==
    Page("https://www.mtonline.gov.bc.ca/mtov/tenureSearch.do", "Tenure Search", "",
         <<[inputs |-> <<TenureInput>>]>>,
         <<Element("input", "text", "tenureNumber", "", Usable)>>)
SiteErrorPage ==
    Page("https://www.mtonline.gov.bc.ca/mtov/home.do", "Mineral Titles Online",
         "Access denied.", <<>>, <<>>)
BlankPage == Page("about:blank", "", "", <<>>, <<>>)

SamplePages ==
    {LoginPage, LoginErrorPage, HomePage, PortalPage, SearchPage, SiteErrorPage, BlankPage}

---------------------------------------------------------------------------
(* fill_login_form *)

default_username_selectors ==
    <<Sel("input", "name", "*=", "user"), Sel("input", "name", "*=", "User"),
      Sel("input", "id", "*=", "user"), Sel("input", "id", "*=", "User"),
      Sel("input", "name", "=", "txtUserId"), Sel("input", "name", "=", "username"),
      Sel("input", "type", "=", "email"), Sel("input", "name", "=", "email")>>

default_password_selectors ==
    <<Sel("input", "type", "=", "password"),
      Sel("input", "name", "*=", "pass"), Sel("input", "name", "*=", "Pass"),
      Sel("input", "name", "=", "txtPassword")>>

submit_selectors ==
    <<Sel("input", "type", "=", "submit"), Sel("button", "type", "=", "submit"),
      Sel("button", "name", "*=", "submit"), Sel("button", "name", "*=", "login"),
      Sel("input", "name", "=", "btnSubmit"), Sel("button", "", "", ""),
      Sel("input", "type", "=", "button")>>

\* the selectors MTOAutomation.login passes
BCeIDUserSelectors ==
    <<Sel("input", "name", "=", "txtUserId"), Sel("input", "id", "=", "txtUserId")>>
BCeIDPasswordSelectors ==
    <<Sel("input", "name", "=", "txtPassword"), Sel("input", "id", "=", "txtPassword")>>

\* the browser calls of fill_login_form that may raise, in the order it makes them
\* (click when a submit control was found, submit when none was)
FillSites ==
    {"find_user", "type_user", "find_pass", "type_pass", "find_submit", "click", "submit"}

\* how the wait for document.readyState ends: it reports complete, it times out,
\* or the script call raises
WaitOutcomes == {"complete", "timeout", "error"}

\* _wait_for_page_load: a TimeoutException is logged and swallowed, anything
\* else is raised
WaitForPageLoad(outcome) == [raised |-> outcome = "error"]

Returned(ret, events) == [ret |-> ret, raised |-> FALSE, events |-> events]
Raised(events)        == [ret |-> FALSE, raised |-> TRUE, events |-> events]

\* the lookups that fail in the browser when call site `site` is the failing one
LookupFaults(selectors, failing, site) ==
    IF failing = site THEN 1..Len(selectors) ELSE {}

\* a mutant: both credential fields are located before either is typed
FillLoginFormBodyLocatesBothFirst(elements, username_selectors, password_selectors, failing, wait) ==
    LET username_field ==
            FindElementBySelectors(username_selectors, elements,
                                   LookupFaults(username_selectors, failing, "find_user"))
        password_field ==
            FindElementBySelectors(password_selectors, elements,
                                   LookupFaults(password_selectors, failing, "find_pass"))
        submit_button ==
            FindElementBySelectors(submit_selectors, elements,
                                   LookupFaults(submit_selectors, failing, "find_submit"))
        lookedUser == <<[op |-> "find", field |-> "username"]>>
        typedUser == lookedUser \o
                     <<[op |-> "type", field |-> "username", element |-> username_field.ret],
                       [op |-> "delay"]>>
        lookedPass == typedUser \o <<[op |-> "find", field |-> "password"]>>
        typedBoth == lookedPass \o
                     <<[op |-> "type", field |-> "password", element |-> password_field.ret],
                       [op |-> "delay"]>>
        lookedSubmit == typedBoth \o <<[op |-> "find", field |-> "submit"]>>
        clicked   == lookedSubmit \o <<[op |-> "delay"],
                                       [op |-> "click", element |-> submit_button.ret]>>
        submitted == lookedSubmit \o <<[op |-> "submit", element |-> password_field.ret]>>
    IN  IF username_field.raised THEN Raised(lookedUser)
        ELSE IF username_field.ret = NoElement THEN Returned(FALSE, lookedUser)
        ELSE IF password_field.raised
        THEN Raised(lookedUser \o <<[op |-> "find", field |-> "password"]>>)
        ELSE IF password_field.ret = NoElement
        THEN Returned(FALSE, lookedUser \o <<[op |-> "find", field |-> "password"]>>)
        ELSE IF failing = "type_user"
        THEN Raised(lookedUser \o <<[op |-> "find", field |-> "password"]>>)
        ELSE IF failing = "type_pass" THEN Raised(lookedPass)
        ELSE IF submit_button.raised THEN Raised(lookedSubmit)
        ELSE IF submit_button.ret # NoElement
        THEN IF failing = "click" THEN Raised(lookedSubmit \o <<[op |-> "delay"]>>)
             ELSE IF WaitForPageLoad(wait).raised THEN Raised(clicked)
             ELSE Returned(TRUE, clicked \o <<[op |-> "wait"], [op |-> "delay"]>>)
        ELSE IF failing = "submit" THEN Raised(lookedSubmit)
             ELSE IF WaitForPageLoad(wait).raised THEN Raised(submitted)
             ELSE Returned(TRUE, submitted \o <<[op |-> "wait"]>>)

\* the try block of fill_login_form on a page with the given elements; failing
\* is the call site whose browser call raises ("none": no call does), wait how
\* the page-load wait ends.  events lists what was done to the page, a lookup
\* being listed when it is made, a field when it has been typed in full.
FillLoginFormBody(elements, username_selectors, password_selectors, failing, wait) ==
    LET username_field ==
            FindElementBySelectors(username_selectors, elements,
                                   LookupFaults(username_selectors, failing, "find_user"))
        password_field ==
            FindElementBySelectors(password_selectors, elements,
                                   LookupFaults(password_selectors, failing, "find_pass"))
        submit_button ==
            FindElementBySelectors(submit_selectors, elements,
                                   LookupFaults(submit_selectors, failing, "find_submit"))
        lookedUser == <<[op |-> "find", field |-> "username"]>>
        typedUser == lookedUser \o
                     <<[op |-> "type", field |-> "username", element |-> username_field.ret],
                       [op |-> "delay"]>>
        lookedPass == typedUser \o <<[op |-> "find", field |-> "password"]>>
        typedBoth == lookedPass \o
                     <<[op |-> "type", field |-> "password", element |-> password_field.ret],
                       [op |-> "delay"]>>
        lookedSubmit == typedBoth \o <<[op |-> "find", field |-> "submit"]>>
        clicked   == lookedSubmit \o <<[op |-> "delay"],
                                       [op |-> "click", element |-> submit_button.ret]>>
        submitted == lookedSubmit \o <<[op |-> "submit", element |-> password_field.ret]>>
    IN  IF username_field.raised THEN Raised(lookedUser)
        ELSE IF username_field.ret = NoElement THEN Returned(FALSE, lookedUser)
        ELSE IF failing = "type_user" THEN Raised(lookedUser)
        ELSE IF password_field.raised THEN Raised(lookedPass)
        ELSE IF password_field.ret = NoElement THEN Returned(FALSE, lookedPass)
        ELSE IF failing = "type_pass" THEN Raised(lookedPass)
        ELSE IF submit_button.raised THEN Raised(lookedSubmit)
        ELSE IF submit_button.ret # NoElement
        THEN IF failing = "click" THEN Raised(lookedSubmit \o <<[op |-> "delay"]>>)
             ELSE IF WaitForPageLoad(wait).raised THEN Raised(clicked)
             ELSE Returned(TRUE, clicked \o <<[op |-> "wait"], [op |-> "delay"]>>)
        ELSE IF failing = "submit" THEN Raised(lookedSubmit)
             ELSE IF WaitForPageLoad(wait).raised THEN Raised(submitted)
             ELSE Returned(TRUE, submitted \o <<[op |-> "wait"]>>)

\* x or default, for a list
OrDefaultList(x, default) == IF Len(x) = 0 THEN default ELSE x

\* a mutant: the except clause is missing, so what the try block raises leaves
\* the function
FillLoginFormUncaught(elements, username_selectors, password_selectors, failing, wait) ==
    [caught |-> FALSE] @@
    FillLoginFormBody(elements,
                      OrDefaultList(username_selectors, default_username_selectors),
                      OrDefaultList(password_selectors, default_password_selectors),
                      failing, wait)

\* fill_login_form: the try block, and the except clause that turns every
\* exception into a False return; caught tells that the except clause ran
FillLoginForm(elements, username_selectors, password_selectors, failing, wait) ==
    LET body == FillLoginFormBody(
                    elements,
                    OrDefaultList(username_selectors, default_username_selectors),
                    OrDefaultList(password_selectors, default_password_selectors),
                    failing, wait)
    IN  IF body.raised
        THEN [ret |-> FALSE, raised |-> FALSE, events |-> body.events, caught |-> TRUE]
        ELSE [caught |-> FALSE] @@ body

\* the three controls of a login page, each absent or in one of the conditions
Control(tag, type, name, id) ==
    {<<>>} \cup {<<Element(tag, type, name, id, c)>> : c \in Conditions}

LoginDoms ==
    {u \o p \o b :
        u \in Control("input", "", "txtUserId", "txtUserId"),
        p \in Control("input", "password", "txtPassword", "txtPassword"),
        b \in Control("input", "submit", "btnSubmit", "")}

\* login pages with two candidate submit controls: a button ahead of the submit
\* input in the document, behind it in submit_selectors
TwoSubmitDoms ==
    {<<Element("input", "", "txtUserId", "txtUserId", Usable),
       Element("input", "password", "txtPassword", "txtPassword", Usable)>> \o b \o i :
        b \in Control("button", "submit", "login", ""),
        i \in Control("input", "submit", "btnSubmit", "")}

---------------------------------------------------------------------------
(* navigate, wait_for_element, _human_type, get_page_text *)

\* a readiness timeout taken for a failure
NavigateToTimeoutFails(get, wait, wait_for_load) ==
    [ret |-> get = "ok" /\ (wait_for_load => wait = "complete"), raised |-> FALSE]

\* navigate: driver.get and the page-load wait run in a try block whose except
\* clause returns False; get is "ok" or "error" (driver.get raises)
NavigateTo(get, wait, wait_for_load) ==
    LET body == IF get = "error" THEN [ret |-> FALSE, raised |-> TRUE]
                ELSE IF wait_for_load /\ WaitForPageLoad(wait).raised
                THEN [ret |-> FALSE, raised |-> TRUE]
                ELSE [ret |-> TRUE, raised |-> FALSE]
    IN  IF body.raised THEN [ret |-> FALSE, raised |-> FALSE] ELSE body

\* navigate(url), wait_for_load left at its default
Navigate(get, wait) == NavigateTo(get, wait, TRUE).ret

\* _initialize_driver: webdriver.Safari(...) creates the session or raises when
\* the automation endpoint cannot be reached; implicitly_wait and
\* set_window_size may raise on the session just created; the except clause
\* logs and re-raises
InitializeDriver(create, setup) ==
    IF create = "unreachable" THEN [raised |-> TRUE, session |-> "absent"]
    ELSE IF setup = "error" THEN [raised |-> TRUE, session |-> "open"]
    ELSE [raised |-> FALSE, session |-> "open"]

\* what driver.quit() may do to the session: answer, or raise with the session
\* gone or still there
QuitOutcomes(s) ==
    IF s = "open"
    THEN {[raises |-> FALSE, session |-> "released"],
          [raises |-> TRUE, session |-> "released"],
          [raises |-> TRUE, session |-> "open"]}
    ELSE {[raises |-> FALSE, session |-> s], [raises |-> TRUE, session |-> s]}

\* close without its except clause
CloseUncaught(driver, s, quit) ==
    IF driver
    THEN [raised |-> quit.raises, session |-> quit.session, quit_called |-> TRUE]
    ELSE [raised |-> FALSE, session |-> s, quit_called |-> FALSE]

\* close: when self.driver is set, driver.quit() is called and whatever it
\* raises is logged; self.driver is left as it is
Close(driver, s, quit) ==
    IF driver
    THEN [raised |-> FALSE, session |-> quit.session, quit_called |-> TRUE]
    ELSE [raised |-> FALSE, session |-> s, quit_called |-> FALSE]

\* wait_for_element: the first element the selector matches, hidden or not; None
\* when the wait times out because there is none; fails tells that the browser
\* call raises something other than a timeout
WaitForElement(sel, elements, fails) ==
    IF fails THEN [ret |-> NoElement, raised |-> TRUE]
    ELSE [ret |-> FirstMatch(sel, elements), raised |-> FALSE]

\* _human_type: clear() and send_keys() raise on an element that is stale, hidden
\* or disabled, and when the browser call fails
HumanTypeRaises(element, fails) ==
    fails \/ element.stale \/ ~element.displayed \/ ~element.enabled

\* get_page_text: the text of the body, "" when reading it raises
GetPageText(text, fails) == IF fails THEN "" ELSE text

---------------------------------------------------------------------------
(* MTOAutomation: login, search_tenure, verify_claims_batch *)

MaxIds == 2

\* the lists of identifiers a batch is called with: up to MaxIds identifiers, and
\* one list that names an identifier twice
TenureList == <<"1001", "1002", "1003", "1004">>
Batches == {SubSeq(TenureList, 1, n) : n \in 0..MaxIds} \cup {<<"1001", "1001">>}

\* search pages: nothing; the field and a submit control; the field alone; the
\* field hidden; a field known by its id only, and a button; a hidden text input
SearchDoms ==
    {<<>>,
     <<Element("input", "text", "tenureNumber", "", Usable),
       Element("input", "submit", "", "", Usable)>>,
     <<Element("input", "text", "tenureNumber", "", Usable)>>,
     <<Element("input", "text", "tenureNumber", "",
               [displayed |-> FALSE, enabled |-> TRUE, stale |-> FALSE])>>,
     <<Element("input", "text", "", "tenureNumber", Usable),
       Element("button", "", "", "", Usable)>>,
     <<Element("input", "text", "q", "q",
               [displayed |-> TRUE, enabled |-> FALSE, stale |-> FALSE])>>}

\* what the result page may say
ResultTexts ==
    {"Tenure status: EXPIRED", "Forfeited. Previously Active.", "Status: Active",
     "In Good Standing", "Active tenure not found", "No results", "Protected"}

SearchSubmitSelectors ==
    <<Sel("input", "type", "=", "submit"), Sel("button", "type", "=", "submit"),
      Sel("button", "", "", "")>>

TenureNumberSelector == Sel("input", "name", "=", "tenureNumber")

\* the active rule tried before the expired rule
StatusOfActiveFirst(page_text) ==
    IF Contains("active", page_text) \/ Contains("good standing", page_text)
    THEN [status |-> "active", available |-> FALSE]
    ELSE IF Contains("expired", page_text) \/ Contains("forfeited", page_text)
    THEN [status |-> "expired", available |-> TRUE]
    ELSE IF Contains("not found", page_text) \/ Contains("no results", page_text)
    THEN [status |-> "not_found", available |-> FALSE]
    ELSE [status |-> "unknown", available |-> FALSE]

\* the status search_tenure reads from the lower-cased page text
StatusOf(page_text) ==
    IF Contains("expired", page_text) \/ Contains("forfeited", page_text)
    THEN [status |-> "expired", available |-> TRUE]
    ELSE IF Contains("active", page_text) \/ Contains("good standing", page_text)
    THEN [status |-> "active", available |-> FALSE]
    ELSE IF Contains("not found", page_text) \/ Contains("no results", page_text)
    THEN [status |-> "not_found", available |-> FALSE]
    ELSE [status |-> "unknown", available |-> FALSE]

\* a mutant: a search starts from the status the pipelines give a row they
\* could not verify
NewResultAssumedAvailable(tenure_id) ==
    [tenure_id |-> tenure_id, status |-> "assumed_available", available |-> FALSE,
     details |-> <<>>]

\* no search is under way
NoResult == [status |-> "none"]

\* the dict search_tenure starts from
NewResult(tenure_id) ==
    [tenure_id |-> tenure_id, status |-> "unknown", available |-> FALSE, details |-> <<>>]

\* result[key] = value
SetKey(r, key, value) == (key :> value) @@ r

\* a mutant: a search that raised is reported as an available tenure
SearchExceptFailsOpen(r, exc) ==
    [raised |-> FALSE, result |-> SetKey([r EXCEPT !.available = TRUE], "error", exc),
     caught |-> exc]

\* the except clause of search_tenure: the exception text is stored under "error"
\* and the result is returned; caught is the text of the exception
SearchExcept(r, exc) ==
    [raised |-> FALSE, result |-> SetKey(r, "error", exc), caught |-> exc]

\* a mutant: an early return that leaves no error text
SearchReturnsErrorSilently(r, text) ==
    [raised |-> FALSE, result |-> r, caught |-> ""]

\* an early return of search_tenure with an error text
SearchReturnsError(r, text) ==
    [raised |-> FALSE, result |-> SetKey(r, "error", text), caught |-> ""]

\* a mutant: a search that ends in an error is left out of the results
EndSearchDropFailed(outcome, events) ==
    /\ pc' = "batch_loop"
    /\ results' = IF "error" \in DOMAIN outcome.result THEN results
                  ELSE Append(results, outcome.result)
    /\ idx' = idx + 1
    /\ batchRet' = batchRet
    /\ log' = log \o events \o <<[op |-> "return", caught |-> outcome.caught]>> \o
              (IF idx < Len(tenure_ids) THEN <<[op |-> "rate_delay"]>> ELSE <<>>)
    /\ result' = NoResult /\ search_dom' = <<>> /\ search_field' = 0

\* a mutant: the rate-limiting delay is made only after a search without error
EndSearchDelayAfterSuccessOnly(outcome, events) ==
    /\ pc' = "batch_loop"
    /\ results' = Append(results, outcome.result)
    /\ idx' = idx + 1
    /\ batchRet' = batchRet
    /\ log' = log \o events \o <<[op |-> "return", caught |-> outcome.caught]>> \o
              (IF idx < Len(tenure_ids) /\ "error" \notin DOMAIN outcome.result
               THEN <<[op |-> "rate_delay"]>> ELSE <<>>)
    /\ result' = NoResult /\ search_dom' = <<>> /\ search_field' = 0

\* a mutant: a search that ended in an error is made again
EndSearchRetriesFailed(outcome, events) ==
    /\ pc' = "batch_loop"
    /\ results' = IF "error" \in DOMAIN outcome.result THEN results
                  ELSE Append(results, outcome.result)
    /\ idx' = IF "error" \in DOMAIN outcome.result THEN idx ELSE idx + 1
    /\ batchRet' = batchRet
    /\ log' = log \o events \o <<[op |-> "return", caught |-> outcome.caught]>> \o
              (IF idx < Len(tenure_ids) THEN <<[op |-> "rate_delay"]>> ELSE <<>>)
    /\ result' = NoResult /\ search_dom' = <<>> /\ search_field' = 0

\* the end of one iteration of verify_claims_batch: search_tenure has returned
\* (or raised), which the log notes with the text of the exception it caught, if
\* any; its result is appended and, unless it was the last identifier, the
\* rate-limiting delay follows
EndSearch(outcome, events) ==
    /\ IF outcome.raised
       THEN /\ pc' = "idle"
            /\ batchRet' = "raised"
            /\ UNCHANGED <<results, idx>>
            /\ log' = log \o events
       ELSE /\ pc' = "batch_loop"
            /\ results' = Append(results, outcome.result)
            /\ idx' = idx + 1
            /\ batchRet' = batchRet
            /\ log' = log \o events \o <<[op |-> "return", caught |-> outcome.caught]>> \o
                      (IF idx < Len(tenure_ids) THEN <<[op |-> "rate_delay"]>> ELSE <<>>)
    /\ result' = NoResult /\ search_dom' = <<>> /\ search_field' = 0

\* what a login() call met: the state of the analysis before the fill, what
\* fill_login_form returned, the state and the success messages of the analysis
\* after the submit, and the URL read at the end ("none": not reached)
NoLoginSeen ==
    [pre |-> "none", filled |-> "none", post |-> "none", successes |-> <<>>,
     url |-> "none"]

\* how login() ends: the value it returns or the exception that leaves it
LoginEnds(how) ==
    /\ pc' = "idle"
    /\ loginRet' = how
    /\ postAnalysis' = "none"

\* a mutant: a login starts by clearing the logged-in flag
LoginClearsFlag ==
    /\ pc = "idle" /\ batchRet = "none"
    /\ \E get \in {"ok", "error"}, wait \in WaitOutcomes :
        IF Navigate(get, wait)
        THEN pc' = "login_analyze" /\ loginRet' = "running" /\ UNCHANGED postAnalysis
        ELSE LoginEnds("false")
    /\ loginSeen' = NoLoginSeen
    /\ logged_in' = FALSE
    /\ UNCHANGED batchVars

\* login() is called, before the batch is verified: the login page is navigated to
Login ==
    /\ pc = "idle" /\ batchRet = "none"
    /\ \E get \in {"ok", "error"}, wait \in WaitOutcomes :
        IF Navigate(get, wait)
        THEN pc' = "login_analyze" /\ loginRet' = "running" /\ UNCHANGED postAnalysis
        ELSE LoginEnds("false")
    /\ loginSeen' = NoLoginSeen
    /\ UNCHANGED <<logged_in, batchVars>>

\* the page is analysed before the form is filled; an unexpected state is only
\* logged
LoginAnalyze ==
    /\ pc = "login_analyze"
    /\ \E page \in SamplePages, faults \in SUBSET AnalyzeSites :
        \E a \in AnalyzePage(page, faults) :
            IF a.raised
            THEN LoginEnds("raised") /\ UNCHANGED loginSeen
            ELSE /\ pc' = "login_fill"
                 /\ loginSeen' = [loginSeen EXCEPT !.pre = a.state]
                 /\ UNCHANGED <<loginRet, postAnalysis>>
    /\ UNCHANGED <<logged_in, batchVars>>

\* the login form is filled with the BCeID selectors and submitted
LoginFill ==
    /\ pc = "login_fill"
    /\ \E elements \in LoginDoms, failing \in FillSites \cup {"none"}, wait \in WaitOutcomes :
        LET success == FillLoginForm(elements, BCeIDUserSelectors, BCeIDPasswordSelectors,
                                     failing, wait)
        IN  /\ IF success.raised
               THEN LoginEnds("raised")
               ELSE IF ~success.ret
               THEN LoginEnds("false")
               ELSE pc' = "login_verify" /\ UNCHANGED <<loginRet, postAnalysis>>
            /\ loginSeen' = [loginSeen EXCEPT !.filled =
                                IF success.raised THEN "raised"
                                ELSE IF success.ret THEN "true" ELSE "false"]
    /\ UNCHANGED <<logged_in, batchVars>>

\* the page the submit led to is analysed; a LOGIN_ERROR state ends the login
LoginVerify ==
    /\ pc = "login_verify"
    /\ \E page \in SamplePages, faults \in SUBSET AnalyzeSites :
        \E a \in AnalyzePage(page, faults) :
            IF a.raised
            THEN LoginEnds("raised") /\ UNCHANGED loginSeen
            ELSE /\ loginSeen' = [loginSeen EXCEPT !.post = a.state,
                                                   !.successes = a.success_messages]
                 /\ IF a.state = LOGIN_ERROR
                    THEN LoginEnds("false")
                    ELSE pc' = "login_check" /\ postAnalysis' = a /\ UNCHANGED loginRet
    /\ UNCHANGED <<logged_in, batchVars>>

\* the URLs driver.current_url may give after the submit
CurrentUrls == {page.url : page \in SamplePages}

\* login judged by the URL alone
LoginCheckUrlOnly ==
    /\ pc = "login_check"
    /\ \E current_url \in CurrentUrls, fails \in BOOLEAN :
        IF fails
        THEN LoginEnds("raised") /\ UNCHANGED <<logged_in, loginSeen>>
        ELSE /\ loginSeen' = [loginSeen EXCEPT !.url = current_url]
             /\ IF Contains("mtonline", Lower(current_url))
                THEN LoginEnds("true") /\ logged_in' = TRUE
                ELSE LoginEnds("false") /\ UNCHANGED logged_in
    /\ UNCHANGED batchVars

\* driver.current_url is read, outside any try block, and the login is judged by
\* it and by the success messages of the analysis
LoginCheck ==
    /\ pc = "login_check"
    /\ \E current_url \in CurrentUrls, fails \in BOOLEAN :
        IF fails
        THEN LoginEnds("raised") /\ UNCHANGED <<logged_in, loginSeen>>
        ELSE /\ loginSeen' = [loginSeen EXCEPT !.url = current_url]
             /\ IF Contains("mtonline", Lower(current_url))
                THEN LoginEnds("true") /\ logged_in' = TRUE
                ELSE IF \E i \in 1..Len(postAnalysis.success_messages) :
                            postAnalysis.success_messages[i] # ""
                THEN LoginEnds("true") /\ logged_in' = TRUE
                ELSE LoginEnds("false") /\ UNCHANGED logged_in
    /\ UNCHANGED batchVars

\* verify_claims_batch(tenure_ids) is called
BatchStart ==
    /\ pc = "idle" /\ batchRet = "none"
    /\ pc' = "batch_loop"
    /\ batchRet' = "running"
    /\ tenure_ids' \in Batches
    /\ idx' = 1
    /\ results' = <<>>
    /\ loginSeen' = NoLoginSeen
    /\ UNCHANGED <<logged_in, loginRet, postAnalysis, result, search_dom, search_field, log>>

\* search_tenure(tenure_ids[idx]) starts: the result dict is made and the search
\* page is navigated to
SearchNavigate ==
    /\ pc = "batch_loop" /\ idx <= Len(tenure_ids)
    /\ \E get \in {"ok", "error"}, wait \in WaitOutcomes :
        LET r  == NewResult(tenure_ids[idx])
            ev == <<[op |-> "get", url |-> "search", id |-> tenure_ids[idx],
                     auth |-> logged_in]>>
        IN  IF Navigate(get, wait)
            THEN /\ pc' = "search_locate"
                 /\ result' = r
                 /\ log' = log \o ev
                 /\ UNCHANGED <<idx, results, batchRet, search_dom, search_field>>
            ELSE EndSearch(SearchReturnsError(r, "Failed to navigate to search page"), ev)
    /\ UNCHANGED <<loginVars, tenure_ids>>

\* the search field is waited for, looked up by the fallback selectors when the
\* wait found none, and the identifier is typed into it
SearchLocate ==
    /\ pc = "search_locate"
    /\ \E elements \in SearchDoms, failing \in {"none", "wait_field", "find_field", "type"} :
        LET waited   == WaitForElement(TenureNumberSelector, elements, failing = "wait_field")
            fallback == FindElementBySelectors(
                            SearchFieldSelectors, elements,
                            LookupFaults(SearchFieldSelectors, failing, "find_field"))
            field    == IF waited.ret # NoElement THEN waited.ret ELSE fallback.ret
        IN  IF waited.raised
            THEN EndSearch(SearchExcept(result, ExcText("wait_for_element")), <<>>)
            ELSE IF waited.ret = NoElement /\ fallback.raised
            THEN EndSearch(SearchExcept(result, ExcText("find_element")), <<>>)
            ELSE IF field = NoElement
            THEN EndSearch(SearchReturnsError(result, "Could not find search field"), <<>>)
            ELSE IF HumanTypeRaises(elements[field], failing = "type")
            THEN EndSearch(SearchExcept(result, ExcText("send_keys")), <<>>)
            ELSE /\ pc' = "search_submit"
                 /\ search_dom' = elements
                 /\ search_field' = field
                 /\ log' = Append(log, [op |-> "type", text |-> result.tenure_id])
                 /\ UNCHANGED <<idx, results, batchRet, result>>
    /\ UNCHANGED <<loginVars, tenure_ids>>

\* the search is submitted, by a click on the submit control or by submitting the
\* field itself, and the page load is waited for
SearchSubmit ==
    /\ pc = "search_submit"
    /\ \E failing \in {"none", "find_submit", "click", "submit"}, wait \in WaitOutcomes :
        LET submit == FindElementBySelectors(
                          SearchSubmitSelectors, search_dom,
                          LookupFaults(SearchSubmitSelectors, failing, "find_submit"))
            how    == IF submit.ret # NoElement THEN "click" ELSE "submit"
        IN  IF submit.raised
            THEN EndSearch(SearchExcept(result, ExcText("find_element")), <<>>)
            ELSE IF failing = how
            THEN EndSearch(SearchExcept(result, ExcText(how)), <<>>)
            ELSE IF WaitForPageLoad(wait).raised
            THEN EndSearch(SearchExcept(result, ExcText("execute_script")), <<[op |-> how]>>)
            ELSE /\ pc' = "search_read"
                 /\ log' = Append(log, [op |-> how])
                 /\ UNCHANGED <<idx, results, batchRet, result, search_dom, search_field>>
    /\ UNCHANGED <<loginVars, tenure_ids>>

\* get_page_text().lower() and the status read from it, for every text the
\* result page may give
LoweredPageText ==
    [fails \in BOOLEAN |-> [text \in ResultTexts |-> Lower(GetPageText(text, fails))]]

StatusOfPageText ==
    [fails \in BOOLEAN |-> [text \in ResultTexts |-> StatusOf(LoweredPageText[fails][text])]]

\* the result page's text is read and the status is set from it
SearchRead ==
    /\ pc = "search_read"
    /\ \E text \in ResultTexts, fails \in BOOLEAN :
        LET page_text == LoweredPageText[fails][text]
            st        == StatusOfPageText[fails][text]
            r         == SetKey([result EXCEPT !.status = st.status,
                                               !.available = st.available],
                                "page_text_snippet",
                                SubSeq(page_text, 1, Min(500, Len(page_text))))
        IN  EndSearch([raised |-> FALSE, result |-> r, caught |-> ""], <<>>)
    /\ UNCHANGED <<loginVars, tenure_ids>>

\* verify_claims_batch returns its results
BatchReturn ==
    /\ pc = "batch_loop" /\ idx > Len(tenure_ids)
    /\ pc' = "idle"
    /\ batchRet' = "returned"
    /\ UNCHANGED <<loginVars, tenure_ids, idx, results, result, search_dom, search_field, log>>

---------------------------------------------------------------------------
(* verify_availability_mto of merit_claims_verifier.py *)

\* the frames the function is called with: one row for each identifier; the
\* caller never passes an empty frame
Frames ==
    {[i \in 1..Len(b) |-> [TENURE_NUMBER_ID |-> b[i]]] : b \in Batches \ {<<>>}}

\* os.environ.get(name) of a variable that is not set
Unset == "<unset>"

\* a or b, on what os.environ.get returns: None and the empty string are false
Truthy(v) == v # Unset /\ v # ""
Or(a, b)  == IF Truthy(a) THEN a ELSE b

\* the environments the script is run in
Environ(mu, bu, mp, bp) ==
    [MTO_USERNAME |-> mu, BCEID_USERNAME |-> bu, MTO_PASSWORD |-> mp, BCEID_PASSWORD |-> bp]

Environments ==
    {Environ(Unset, Unset, Unset, Unset),
     Environ("user", Unset, "secret", Unset),
     Environ(Unset, "user", Unset, "secret"),
     Environ("", "user", "secret", ""),
     Environ("user", Unset, Unset, Unset),
     Environ("", Unset, "secret", Unset),
     Environ(Unset, Unset, Unset, "secret")}

\* a mutant: one credential is enough
CredentialsFoundEither(environ) ==
    \/ Truthy(Or(environ.MTO_USERNAME, environ.BCEID_USERNAME))
    \/ Truthy(Or(environ.MTO_PASSWORD, environ.BCEID_PASSWORD))

\* the test verify_availability_mto makes on the credentials it reads
CredentialsFound(environ) ==
    LET username == Or(environ.MTO_USERNAME, environ.BCEID_USERNAME)
        password == Or(environ.MTO_PASSWORD, environ.BCEID_PASSWORD)
    IN  ~(~Truthy(username) \/ ~Truthy(password))

\* df_expired['mto_status'] = 'assumed_available'
AssumeAll(df) == [i \in 1..Len(df) |-> SetKey(df[i], "mto_status", "assumed_available")]

\* driver.find_element(By.NAME, name): the position of the first element of that
\* name, 0 when there is none (NoSuchElementException)
ByName(name, elements) ==
    IF \E p \in 1..Len(elements) : elements[p].name = name
    THEN CHOOSE p \in 1..Len(elements) :
            /\ elements[p].name = name
            /\ \A q \in 1..(p - 1) : elements[q].name # name
    ELSE 0

\* send_keys raises on an element that is absent, stale, hidden or disabled
SendKeysRaises(elements, p) ==
    p = 0 \/ elements[p].stale \/ ~elements[p].displayed \/ ~elements[p].enabled

\* click raises on an element that is absent, stale or hidden
ClickRaises(elements, p) ==
    p = 0 \/ elements[p].stale \/ ~elements[p].displayed

VerifierLoginSites ==
    {"get", "wait_user", "send_user", "send_pass", "click", "wait_url", "page_source"}

\* the HTML the browser may hold after the login form was submitted
PageSources ==
    {"<html><body>Mineral Titles Online</body></html>",
     "<html><body>Login Error: try again</body></html>",
     "<html><body>Invalid user ID</body></html>"}

\* the login steps inside the try block: "exception" when one of them raises (a
\* wait that times out raises too), "error_page" when the page source holds the
\* word error, "ok" otherwise
VerifierLogin(elements, failing, current_url, page_source) ==
    IF failing = "get" THEN "exception"
    ELSE IF failing = "wait_user" \/ ByName("txtUserId", elements) = 0 THEN "exception"
    ELSE IF failing = "send_user" \/ SendKeysRaises(elements, ByName("txtUserId", elements))
    THEN "exception"
    ELSE IF failing = "send_pass" \/ SendKeysRaises(elements, ByName("txtPassword", elements))
    THEN "exception"
    ELSE IF failing = "click" \/ ClickRaises(elements, ByName("btnSubmit", elements))
    THEN "exception"
    ELSE IF failing = "wait_url" \/ ~Contains("mtonline", current_url) THEN "exception"
    ELSE IF failing = "page_source" THEN "exception"
    ELSE IF Contains("error", Lower(page_source)) THEN "error_page"
    ELSE "ok"

\* the search pages the verifier may meet
VerifierSearchDoms ==
    {<<>>,
     <<Element("input", "text", "tenureNumber", "", Usable),
       Element("select", "", "searchType", "", Usable),
       Element("input", "submit", "", "", Usable)>>,
     <<Element("input", "text", "tenureNumber", "", Usable),
       Element("input", "submit", "", "", Usable)>>,
     <<Element("input", "text", "tenureNumber", "",
               [displayed |-> FALSE, enabled |-> TRUE, stale |-> FALSE]),
       Element("select", "", "searchType", "", Usable),
       Element("input", "submit", "", "", Usable)>>}

VerifierSearchSites ==
    {"get", "wait_field", "send_tenure", "send_type", "click", "wait_body", "page_source"}

\* a result page: the text of its span of class status and of its td that
\* mentions status, NoTag for a tag the page lacks
NoTag == "<None>"
ResultPages ==
    {[span |-> "Expired", td |-> NoTag], [span |-> NoTag, td |-> " Status: FORFEITED "],
     [span |-> " Active ", td |-> "Status: Expired"], [span |-> NoTag, td |-> NoTag],
     [span |-> "Good Standing", td |-> NoTag]}

Whitespace == " "

\* str.strip()
RECURSIVE Strip(_)
Strip(s) ==
    IF Len(s) = 0 THEN s
    ELSE IF Contains(SubSeq(s, 1, 1), Whitespace) THEN Strip(SubSeq(s, 2, Len(s)))
    ELSE IF Contains(SubSeq(s, Len(s), Len(s)), Whitespace)
    THEN Strip(SubSeq(s, 1, Len(s) - 1))
    ELSE s

\* the mto_status read from a result page
VerifierStatus(page) ==
    LET status_elem == IF page.span # NoTag THEN page.span ELSE page.td
        status      == IF status_elem = NoTag THEN "unknown" ELSE Lower(Strip(status_elem))
    IN  IF Contains("expired", status) \/ Contains("forfeited", status)
        THEN "available" ELSE "not_available"

\* a mutant: a search that raises marks the row like one that found nothing
VerifierSearchFailsClosed(row, elements, failing, page) ==
    IF \/ failing \in {"get", "wait_field", "send_tenure", "send_type", "click",
                       "wait_body", "page_source"}
       \/ ByName("tenureNumber", elements) = 0
       \/ SendKeysRaises(elements, ByName("tenureNumber", elements))
       \/ SendKeysRaises(elements, ByName("searchType", elements))
       \/ ClickRaises(elements, FirstMatch(Sel("input", "type", "=", "submit"), elements))
    THEN [row |-> SetKey(row, "mto_status", "not_available"), raised |-> TRUE]
    ELSE [row |-> SetKey(row, "mto_status", VerifierStatus(page)), raised |-> FALSE]

\* one iteration of the search loop: the try block and its except clause, which
\* marks the row 'assumed_available'; raised tells that the except clause ran
VerifierSearch(row, elements, failing, page) ==
    IF \/ failing \in {"get", "wait_field", "send_tenure", "send_type", "click",
                       "wait_body", "page_source"}
       \/ ByName("tenureNumber", elements) = 0
       \/ SendKeysRaises(elements, ByName("tenureNumber", elements))
       \/ SendKeysRaises(elements, ByName("searchType", elements))
       \/ ClickRaises(elements, FirstMatch(Sel("input", "type", "=", "submit"), elements))
    THEN [row |-> SetKey(row, "mto_status", "assumed_available"), raised |-> TRUE]
    ELSE [row |-> SetKey(row, "mto_status", VerifierStatus(page)), raised |-> FALSE]

\* how verify_availability_mto ends
VerifierEnds(how, frame) ==
    /\ vpc' = "done"
    /\ vret' = how
    /\ out' = frame

\* a mutant: a login that failed is not noticed
VerifierAfterLoginUnnoticed(outcome, create, quit) ==
    /\ vlogin' = outcome
    /\ sessions' = IF create = "error" THEN sessions
                   ELSE Append(sessions, IF quit = "ok" THEN "quit" ELSE "quit_failed")
    /\ IF create = "ok" /\ quit = "error"
       THEN VerifierEnds("raised", <<>>) /\ UNCHANGED df_expired
       ELSE vpc' = "session" /\ UNCHANGED <<vret, out, df_expired>>

\* a mutant: a login session whose quit raised is left behind and the function
\* goes on
VerifierAfterLoginQuitSwallowed(outcome, create, quit) ==
    /\ vlogin' = outcome
    /\ sessions' = IF create = "error" THEN sessions
                   ELSE Append(sessions, IF quit = "ok" THEN "quit" ELSE "quit_failed")
    /\ df_expired' = IF outcome # "ok" THEN AssumeAll(df_expired) ELSE df_expired
    /\ IF outcome # "ok"
       THEN VerifierEnds("returned", AssumeAll(df_expired))
       ELSE vpc' = "session" /\ UNCHANGED <<vret, out>>

\* the except and finally clauses of the login block, and what follows them: a
\* login that failed marks every row 'assumed_available' and returns the frame;
\* the session, if one was created, is quit, and a quit that raises replaces the
\* return
VerifierAfterLogin(outcome, create, quit) ==
    /\ vlogin' = outcome
    /\ sessions' = IF create = "error" THEN sessions
                   ELSE Append(sessions, IF quit = "ok" THEN "quit" ELSE "quit_failed")
    /\ df_expired' = IF outcome # "ok" THEN AssumeAll(df_expired) ELSE df_expired
    /\ IF create = "ok" /\ quit = "error"
       THEN VerifierEnds("raised", <<>>)
       ELSE IF outcome # "ok"
       THEN VerifierEnds("returned", AssumeAll(df_expired))
       ELSE vpc' = "session" /\ UNCHANGED <<vret, out>>

\* verify_availability_mto(df_expired) is called: without credentials in the
\* environment every row is marked 'assumed_available' and the frame is returned
VerifierStart ==
    /\ vpc = "start"
    /\ IF CredentialsFound(vcall.environ)
       THEN /\ df_expired' = vcall.df
            /\ vpc' = "login"
            /\ UNCHANGED <<vlogin, vret, out>>
       ELSE /\ df_expired' = AssumeAll(vcall.df)
            /\ vlogin' = "no_credentials"
            /\ VerifierEnds("returned", AssumeAll(vcall.df))
    /\ UNCHANGED <<vcall, sessions, verified, row_i, vlog>>

\* the login block: a session is created and the login steps run
VerifierLoginBlock ==
    /\ vpc = "login"
    /\ \E create \in {"ok", "error"}, elements \in LoginDoms,
          failing \in VerifierLoginSites \cup {"none"}, current_url \in CurrentUrls,
          page_source \in PageSources, quit \in {"ok", "error"} :
        VerifierAfterLogin(
            IF create = "error" THEN "exception"
            ELSE VerifierLogin(elements, failing, current_url, page_source),
            create, quit)
    /\ UNCHANGED <<vcall, verified, row_i, vlog>>

\* a second session is created for the searches and its implicit wait is set,
\* both outside any try block: a constructor that raises leaves no session, an
\* implicitly_wait that raises leaves the function with the session open
VerifierSession ==
    /\ vpc = "session"
    /\ \E create \in {"ok", "error", "setup_error"} :
        IF create = "error"
        THEN VerifierEnds("raised", <<>>) /\ UNCHANGED <<sessions, row_i>>
        ELSE IF create = "setup_error"
        THEN /\ VerifierEnds("raised", <<>>)
             /\ sessions' = Append(sessions, "open")
             /\ UNCHANGED row_i
        ELSE /\ sessions' = Append(sessions, "open")
             /\ vpc' = "search"
             /\ row_i' = 1
             /\ UNCHANGED <<vret, out>>
    /\ UNCHANGED <<vcall, df_expired, vlogin, verified, vlog>>

\* one row is searched and appended to the verified rows
VerifierSearchRow ==
    /\ vpc = "search" /\ row_i <= Len(df_expired)
    /\ \E elements \in VerifierSearchDoms, failing \in VerifierSearchSites \cup {"none"},
          page \in ResultPages :
        LET r == VerifierSearch(df_expired[row_i], elements, failing, page)
        IN  /\ verified' = Append(verified, r.row)
            /\ vlog' = Append(vlog, r.raised)
    /\ row_i' = row_i + 1
    /\ UNCHANGED <<vcall, vpc, df_expired, vlogin, sessions, vret, out>>

\* a mutant: the verified rows are returned with the search session left open
VerifierFinishLeavesSession ==
    /\ vpc = "search" /\ row_i > Len(df_expired)
    /\ VerifierEnds("returned", verified)
    /\ UNCHANGED <<vcall, df_expired, vlogin, sessions, verified, row_i, vlog>>

\* the loop is over: the verified rows are returned as a frame after the session
\* is quit, and a quit that raises replaces the return
VerifierFinish ==
    /\ vpc = "search" /\ row_i > Len(df_expired)
    /\ \E quit \in {"ok", "error"} :
        /\ sessions' = [sessions EXCEPT ![Len(sessions)] =
                            IF quit = "ok" THEN "quit" ELSE "quit_failed"]
        /\ IF quit = "error"
           THEN VerifierEnds("raised", <<>>)
           ELSE VerifierEnds("returned", verified)
    /\ UNCHANGED <<vcall, df_expired, vlogin, verified, row_i, vlog>>

---------------------------------------------------------------------------
(* SpecFind: _find_element_by_selectors applied to a page *)

FindIdle ==
    /\ dom = <<>>
    /\ findFaults = {}
    /\ findResult = [pc |-> "idle"]

ClassifyIdle ==
    /\ snapshot = "none"
    /\ pageState = "idle"

AnalyzeIdle ==
    /\ browser = "none"
    /\ analysis = [pc |-> "idle"]
    /\ reanalysis = [pc |-> "idle"]

FillIdle ==
    /\ fillArgs = "none"
    /\ fill = [pc |-> "idle"]

LabelIdle ==
    /\ labelArgs = "none"
    /\ labelResult = [pc |-> "idle"]

SessionIdle ==
    /\ object = "none" /\ session = "absent" /\ history = <<>>

ScanIdle == scan = [pc |-> "idle"]

AutopilotIdle == autopilot = [pc |-> "idle"]

MeritIdle == merit = [pc |-> "idle"]

RestIdle == ScanIdle /\ AutopilotIdle /\ MeritIdle

VerifierIdle ==
    /\ vcall = "none"
    /\ vpc = "none" /\ df_expired = <<>> /\ vlogin = "none" /\ sessions = <<>>
    /\ verified = <<>> /\ row_i = 0 /\ vlog = <<>> /\ vret = "none" /\ out = <<>>

MTOIdle ==
    /\ pc = "none"
    /\ logged_in = FALSE /\ loginRet = "none" /\ postAnalysis = "none"
    /\ loginSeen = NoLoginSeen
    /\ tenure_ids = <<>> /\ idx = 0 /\ results = <<>> /\ batchRet = "none"
    /\ result = NoResult /\ search_dom = <<>> /\ search_field = 0 /\ log = <<>>

InitFind ==
    /\ dom \in SeqsUpTo(SearchPageElements, MaxDom)
    /\ findFaults \in SUBSET (1..Len(SearchFieldSelectors))
    /\ findResult = [pc |-> "pending"]
    /\ ClassifyIdle /\ AnalyzeIdle /\ FillIdle /\ MTOIdle /\ VerifierIdle
    /\ LabelIdle /\ SessionIdle /\ RestIdle

FindElement ==
    /\ findResult.pc = "pending"
    /\ findResult' =
            [pc |-> "done"] @@ FindElementBySelectors(SearchFieldSelectors, dom, findFaults)
    /\ UNCHANGED <<dom, findFaults, classifyVars, analyzeVars, fillVars, mtoVars, verifierVars,
                 labelVars, sessionVars, restVars>>

NextFind == FindElement

SpecFind == InitFind /\ [][NextFind]_vars

\* the first match of candidate k is displayed and enabled
CandidateUsable(k) ==
    LET m == FirstMatch(SearchFieldSelectors[k], dom)
    IN  m # 0 /\ ~dom[m].stale /\ dom[m].displayed /\ dom[m].enabled

\* looking candidate k up raises something other than element-not-found
CandidateRaises(k) ==
    \/ k \in findFaults
    \/ LET m == FirstMatch(SearchFieldSelectors[k], dom) IN m # 0 /\ dom[m].stale

FindReturned == findResult.pc = "done" /\ ~findResult.raised

\* C10: when _find_element_by_selectors returns, it returns the element of the
\* first candidate, in list order, whose element is displayed and enabled (None
\* when there is none), and the candidates looked up in the browser are exactly
\* those up to the chosen one, each once and in list order.
C10_FirstUsableCandidateShortCircuit ==
    FindReturned =>
        IF findResult.ret # NoElement
        THEN \E k \in 1..Len(SearchFieldSelectors) :
                /\ CandidateUsable(k)
                /\ \A j \in 1..(k - 1) : ~CandidateUsable(j)
                /\ findResult.ret = FirstMatch(SearchFieldSelectors[k], dom)
                /\ findResult.probed = [j \in 1..k |-> j]
        ELSE /\ \A k \in 1..Len(SearchFieldSelectors) : ~CandidateUsable(k)
             /\ findResult.probed = [j \in 1..Len(SearchFieldSelectors) |-> j]

\* the case [A, B, C] of C10: A matches nothing, B and C both match usable
\* elements; B's element is returned and C was never looked up
C10_Witness ==
    /\ FindReturned
    /\ ~CandidateUsable(1) /\ CandidateUsable(2) /\ CandidateUsable(3)
    /\ FirstMatch(SearchFieldSelectors[2], dom) # FirstMatch(SearchFieldSelectors[3], dom)
    /\ findResult.ret = FirstMatch(SearchFieldSelectors[2], dom)
    /\ findResult.probed = <<1, 2>>

\* the first candidate whose lookup raises comes before every usable candidate
RaisesFirst ==
    \E k \in 1..Len(SearchFieldSelectors) :
        /\ CandidateRaises(k)
        /\ \A j \in 1..(k - 1) : ~CandidateUsable(j) /\ ~CandidateRaises(j)

\* an element that candidate k matches, behind its first match, is displayed
\* and enabled
LaterMatchUsable(k) ==
    \E p \in 1..Len(dom) :
        /\ p > FirstMatch(SearchFieldSelectors[k], dom)
        /\ Matches(SearchFieldSelectors[k], dom[p])
        /\ ~dom[p].stale /\ dom[p].displayed /\ dom[p].enabled

\* C39: _find_element_by_selectors probes the first match of each candidate
\* only: the element it returns is the first match of a candidate and is
\* displayed and enabled; it returns None exactly when the first match of every
\* candidate is absent or is not both displayed and enabled, usable later
\* matches notwithstanding; an exception other than element-not-found leaves
\* the function
C39_OnlyFirstMatchProbed ==
    findResult.pc = "done" =>
        /\ (~findResult.raised /\ findResult.ret # NoElement) =>
                /\ \E k \in 1..Len(SearchFieldSelectors) :
                        findResult.ret = FirstMatch(SearchFieldSelectors[k], dom)
                /\ dom[findResult.ret].displayed /\ dom[findResult.ret].enabled
        /\ (~findResult.raised /\ findResult.ret = NoElement) <=>
                \A k \in 1..Len(SearchFieldSelectors) :
                    LET m == FirstMatch(SearchFieldSelectors[k], dom)
                    IN  /\ k \notin findFaults
                        /\ m = 0 \/ (~dom[m].stale /\ ~(dom[m].displayed /\ dom[m].enabled))
        /\ findResult.raised <=> RaisesFirst

\* the first match of the first candidate is hidden and a later match of the
\* same candidate is usable: None was returned
C39_Witness ==
    /\ FindReturned /\ findResult.ret = NoElement
    /\ FirstMatch(SearchFieldSelectors[1], dom) # 0
    /\ LaterMatchUsable(1)

---------------------------------------------------------------------------
(* SpecAnalyze: analyze_page applied to a page, with browser calls that fail *)

InitAnalyze ==
    /\ browser \in [page : SamplePages, faults : SUBSET AnalyzeSites]
    /\ analysis = [pc |-> "pending"]
    /\ reanalysis = [pc |-> "pending"]
    /\ ClassifyIdle /\ FindIdle /\ FillIdle /\ MTOIdle /\ VerifierIdle
    /\ LabelIdle /\ SessionIdle /\ RestIdle

AnalyzePageCall ==
    /\ analysis.pc = "pending"
    /\ \E r \in AnalyzePage(browser.page, browser.faults) :
            analysis' = [pc |-> "done"] @@ r
    /\ UNCHANGED <<browser, reanalysis, classifyVars, findVars, fillVars, mtoVars,
                   verifierVars, labelVars, sessionVars, restVars>>

\* analyze_page is called again; the page has not changed and the browser answers
\* as before
AnalyzePageAgain ==
    /\ analysis.pc = "done" /\ reanalysis.pc = "pending"
    /\ \E r \in AnalyzePage(browser.page, browser.faults) :
            reanalysis' = [pc |-> "done"] @@ r
    /\ UNCHANGED <<browser, analysis, classifyVars, findVars, fillVars, mtoVars,
                   verifierVars, labelVars, sessionVars, restVars>>

NextAnalyze == AnalyzePageCall \/ AnalyzePageAgain

SpecAnalyze == InitAnalyze /\ [][NextAnalyze]_vars

\* C4: analyze_page never raises to its caller, whatever browser calls fail
\* during the analysis, including when every call fails.
C4_AnalyzeNeverRaises ==
    analysis.pc = "done" => ~analysis.raised

\* C12: two analyses of an unchanged page end the same way and, when they return,
\* return the same state, whatever order the de-duplicated messages come in.
C12_ReanalysisGivesSameState ==
    (analysis.pc = "done" /\ reanalysis.pc = "done") =>
        /\ analysis.raised = reanalysis.raised
        /\ ~analysis.raised => analysis.state = reanalysis.state

\* two analyses of the page of a rejected login list its two error messages in
\* different orders and both say LOGIN_ERROR
C12_Witness ==
    /\ analysis.pc = "done" /\ reanalysis.pc = "done"
    /\ ~analysis.raised /\ ~reanalysis.raised
    /\ Len(analysis.error_messages) = 2
    /\ analysis.error_messages # reanalysis.error_messages
    /\ analysis.state = LOGIN_ERROR /\ reanalysis.state = LOGIN_ERROR

\* what holds of analyze_page: when no exception leaves it and one of the reads of
\* the URL, the title, the body or its text failed, the state is UNKNOWN and the
\* text of the first failure is the only error message
AnalyzeCollapsesToUnknown ==
    (/\ analysis.pc = "done" /\ ~analysis.raised
     /\ browser.faults \cap Range(AnalyzeCalls) # {}) =>
        /\ analysis.state = UNKNOWN
        /\ \E site \in browser.faults \cap Range(AnalyzeCalls) :
                analysis.error_messages = <<ExcText(site)>>

\* what makes analyze_page raise: a failed read in the try block followed by a
\* failed read of driver.current_url in the except clause
AnalyzeRaisesOnlyInHandler ==
    (analysis.pc = "done") =>
        (analysis.raised <=>
            (browser.faults \cap Range(AnalyzeCalls) # {} /\ "handler_url" \in browser.faults))

---------------------------------------------------------------------------
(* SpecFill: fill_login_form applied to a login page *)

InitFill ==
    /\ fillArgs \in [elements : LoginDoms \cup TwoSubmitDoms,
                 selectors : {<<<<>>, <<>>>>, <<BCeIDUserSelectors, BCeIDPasswordSelectors>>},
                 failing : FillSites \cup {"none"},
                 wait : WaitOutcomes]
    /\ fill = [pc |-> "pending"]
    /\ ClassifyIdle /\ FindIdle /\ AnalyzeIdle /\ MTOIdle /\ VerifierIdle
    /\ LabelIdle /\ SessionIdle /\ RestIdle

FillLoginFormCall ==
    /\ fill.pc = "pending"
    /\ fill' = [pc |-> "done"] @@
               FillLoginForm(fillArgs.elements, fillArgs.selectors[1], fillArgs.selectors[2],
                             fillArgs.failing, fillArgs.wait)
    /\ UNCHANGED <<fillArgs, classifyVars, findVars, analyzeVars, mtoVars, verifierVars,
                 labelVars, sessionVars, restVars>>

NextFill == FillLoginFormCall

SpecFill == InitFill /\ [][NextFill]_vars

\* a control of the login page that is there, displayed and enabled
Locatable(name) ==
    \E p \in 1..Len(fillArgs.elements) :
        /\ fillArgs.elements[p].name = name
        /\ ~fillArgs.elements[p].stale
        /\ fillArgs.elements[p].displayed /\ fillArgs.elements[p].enabled

\* a control of the login page that is missing, hidden or disabled
NotLocatable(name) ==
    \A p \in 1..Len(fillArgs.elements) :
        fillArgs.elements[p].name = name =>
            /\ ~fillArgs.elements[p].stale
            /\ ~(fillArgs.elements[p].displayed /\ fillArgs.elements[p].enabled)

\* an operation of the given kind was done to the page
Did(events, op) == \E i \in 1..Len(events) : events[i].op = op

\* the element candidate k of submit_selectors stands for on the page: the first
\* the browser finds for it
SubmitCandidate(k) == FirstMatch(submit_selectors[k], fillArgs.elements)

UsableCandidate(k) ==
    /\ SubmitCandidate(k) # NoElement
    /\ fillArgs.elements[SubmitCandidate(k)].displayed
    /\ fillArgs.elements[SubmitCandidate(k)].enabled
    /\ ~fillArgs.elements[SubmitCandidate(k)].stale

UsableCandidates == {k \in 1..Len(submit_selectors) : UsableCandidate(k)}

\* the candidates whose element is stale: asking whether it is displayed raises
StaleCandidates ==
    {k \in 1..Len(submit_selectors) :
        SubmitCandidate(k) # NoElement /\ fillArgs.elements[SubmitCandidate(k)].stale}

\* the lookup of the submit control gives a control to click
SubmitControlFound ==
    \E k \in UsableCandidates : \A j \in StaleCandidates : k < j

\* the lookup of the submit control ends without a control and without raising
SubmitControlMissing == UsableCandidates = {} /\ StaleCandidates = {}

\* a browser call that fill_login_form makes on this page raises
FillCallRaises ==
    \/ fillArgs.failing = "find_user"
    \/ /\ Locatable("txtUserId")
       /\ fillArgs.failing \in {"type_user", "find_pass"}
    \/ /\ Locatable("txtUserId") /\ Locatable("txtPassword")
       /\ \/ fillArgs.failing \in {"type_pass", "find_submit"}
          \/ fillArgs.failing = "click" /\ SubmitControlFound
          \/ fillArgs.failing = "submit" /\ SubmitControlMissing
          \/ fillArgs.wait = "error"

\* C5: fill_login_form never raises; it returns False when the username field or
\* the password field cannot be located, and when a browser call made during the
\* fill or the submit raises.
C5_FillReturnsFalseNeverRaises ==
    fill.pc = "done" =>
        /\ ~fill.raised
        /\ (NotLocatable("txtUserId") \/ NotLocatable("txtPassword")) => ~fill.ret
        /\ FillCallRaises => ~fill.ret

\* the case of C5 where both fields were typed and the click on the submit
\* control raises
C5_Witness ==
    /\ fill.pc = "done"
    /\ Locatable("txtUserId") /\ Locatable("txtPassword") /\ Locatable("btnSubmit")
    /\ fillArgs.failing = "click"
    /\ Did(fill.events, "type") /\ ~Did(fill.events, "click")
    /\ fill.caught /\ ~fill.ret /\ ~fill.raised

\* fill_login_form returned True
FillSucceeded == fill.pc = "done" /\ ~fill.raised /\ fill.ret

\* the submissions among the operations done to the page
Submissions(events) == {i \in 1..Len(events) : events[i].op \in {"click", "submit"}}

\* C22: on every path on which fill_login_form returns True, the submission (the
\* click of the submit control or the submit of the password field) is followed
\* by the page-readiness wait and then by a settle delay, and nothing else
C22_WaitThenSettleAfterSubmission ==
    FillSucceeded =>
        LET n == Len(fill.events)
        IN  /\ n >= 3
            /\ fill.events[n - 2].op \in {"click", "submit"}
            /\ fill.events[n - 1].op = "wait"
            /\ fill.events[n].op = "delay"

\* the positions of the type operations: both credential fields were filled
\* when there are two
Typed(events) == {i \in 1..Len(events) : events[i].op = "type"}

\* the one submission of a call
TheSubmission == fill.events[CHOOSE i \in Submissions(fill.events) : TRUE]

\* C23: with both credential fields filled and no browser call raising, the
\* call returns True after exactly one submission: a click on the first usable
\* candidate of submit_selectors, in list order, when there is one, and
\* otherwise the submit of the password field itself
C23_OneSubmissionClickElseFieldSubmit ==
    (fill.pc = "done" /\ ~fill.caught /\ Cardinality(Typed(fill.events)) = 2) =>
        /\ fill.ret
        /\ Cardinality(Submissions(fill.events)) = 1
        /\ IF UsableCandidates = {}
           THEN /\ TheSubmission.op = "submit"
                /\ \E i \in Typed(fill.events) :
                        /\ fill.events[i].field = "password"
                        /\ fill.events[i].element = TheSubmission.element
           ELSE /\ TheSubmission.op = "click"
                /\ \E k \in UsableCandidates :
                        /\ \A j \in UsableCandidates : k <= j
                        /\ TheSubmission.element = SubmitCandidate(k)

\* a page whose button and submit input are both usable: the submit input, first
\* in submit_selectors and last in the document, was clicked
C23_Witness ==
    /\ FillSucceeded
    /\ Len(fillArgs.elements) = 4
    /\ UsableCandidate(1) /\ UsableCandidate(2)
    /\ SubmitCandidate(2) < SubmitCandidate(1)
    /\ TheSubmission = [op |-> "click", element |-> SubmitCandidate(1)]

\* the positions at which a field was looked up, and at which it was typed
LookedUp(events, field) ==
    {i \in 1..Len(events) : events[i].op = "find" /\ events[i].field = field}

TypedField(events, field) ==
    {i \in 1..Len(events) : events[i].op = "type" /\ events[i].field = field}

\* C32: fill_login_form looks up and types the password field only after the
\* username field was found and typed in full, and submits, by click or by
\* field submit, only after both fields were typed; when the username field is
\* not found nothing is typed, and when the password field is not found the
\* username has been typed and nothing is submitted
C32_UsernameThenPasswordThenSubmit ==
    fill.pc = "done" =>
        LET ev == fill.events
        IN  /\ \A i \in LookedUp(ev, "password") \cup TypedField(ev, "password") :
                    \E j \in TypedField(ev, "username") : j < i
            /\ \A i \in TypedField(ev, "username") :
                    \E j \in LookedUp(ev, "username") : j < i
            /\ \A i \in TypedField(ev, "password") :
                    \E j \in LookedUp(ev, "password") : j < i
            /\ \A i \in Submissions(ev) :
                    /\ \E j \in TypedField(ev, "username") : j < i
                    /\ \E j \in TypedField(ev, "password") : j < i
            /\ NotLocatable("txtUserId") =>
                    /\ Typed(ev) = {} /\ Submissions(ev) = {}
                    /\ LookedUp(ev, "password") = {}
                    /\ ~fill.ret
            /\ (/\ Locatable("txtUserId") /\ NotLocatable("txtPassword")
                /\ fillArgs.failing \notin {"find_user", "type_user", "find_pass"}) =>
                    /\ Cardinality(TypedField(ev, "username")) = 1
                    /\ TypedField(ev, "password") = {}
                    /\ Submissions(ev) = {}
                    /\ ~fill.ret /\ ~fill.caught

\* a page with a username field and a submit control but no password field: the
\* username was typed, the password field looked up, and nothing was submitted
C32_Witness ==
    /\ fill.pc = "done"
    /\ Locatable("txtUserId") /\ NotLocatable("txtPassword") /\ Locatable("btnSubmit")
    /\ fillArgs.failing = "none"
    /\ Cardinality(TypedField(fill.events, "username")) = 1
    /\ LookedUp(fill.events, "password") # {}
    /\ Submissions(fill.events) = {}
    /\ ~fill.ret

---------------------------------------------------------------------------
(* SpecClassify: _determine_page_state applied to a page snapshot *)

InitClassify ==
    /\ snapshot \in Snapshots
    /\ pageState = "pending"
    /\ FindIdle /\ AnalyzeIdle /\ FillIdle /\ MTOIdle /\ VerifierIdle
    /\ LabelIdle /\ SessionIdle /\ RestIdle

Classify ==
    /\ pageState = "pending"
    /\ pageState' = DeterminePageState(snapshot.url, snapshot.title, snapshot.forms,
                                       snapshot.errors, snapshot.successes)
    /\ UNCHANGED <<snapshot, findVars, analyzeVars, fillVars, mtoVars, verifierVars,
                 labelVars, sessionVars, restVars>>

NextClassify == Classify

SpecClassify == InitClassify /\ [][NextClassify]_vars

---------------------------------------------------------------------------
(* Claims about _determine_page_state, checked under SpecClassify *)

Classified == pageState # "pending"

ErrorsPresent    == Len(snapshot.errors) > 0
SuccessesPresent == Len(snapshot.successes) > 0
LoginFormExists  == HasLoginForm(snapshot.forms)
UrlSuggestsLogin == IsLoginUrl(snapshot.url)
MentionsSearch ==
    Contains("search", Lower(snapshot.url)) \/ Contains("search", Lower(snapshot.title))
MentionsResult ==
    Contains("result", Lower(snapshot.url)) \/ Contains("result", Lower(snapshot.title))

\* some form of the snapshot has an input of type password
PasswordBearingForm ==
    \E f \in 1..Len(snapshot.forms) :
        \E i \in 1..Len(snapshot.forms[f].inputs) :
            snapshot.forms[f].inputs[i].type = "password"

\* C7: a snapshot with an error match and a password-bearing form is classified
\* LoginError, whatever its URL, title and success matches are.
C7_ErrorWithPasswordFormIsLoginError ==
    (Classified /\ ErrorsPresent /\ PasswordBearingForm) => pageState = LOGIN_ERROR

\* the case of C7 with a success match on a URL that does not suggest login
C7_Witness ==
    /\ Classified /\ ErrorsPresent /\ PasswordBearingForm
    /\ SuccessesPresent /\ ~UrlSuggestsLogin
    /\ pageState = LOGIN_ERROR

\* C8 as stated: zero forms, zero error matches and "result" in the URL or the
\* title give ResultsPage.
C8_Original ==
    (Classified /\ Len(snapshot.forms) = 0 /\ ~ErrorsPresent /\ MentionsResult)
        => pageState = RESULTS_PAGE

\* C8 amended: zero forms, zero error matches, zero success matches, a URL that
\* does not suggest login, no "search" in the URL or the title, and "result" in
\* the URL or the title give ResultsPage.
C8_ResultsPageWhenNoEarlierRule ==
    (/\ Classified /\ Len(snapshot.forms) = 0 /\ ~ErrorsPresent /\ MentionsResult
     /\ ~SuccessesPresent /\ ~UrlSuggestsLogin /\ ~MentionsSearch)
        => pageState = RESULTS_PAGE

\* the case of C8 where only the URL mentions "result", and in capitals
C8_Witness ==
    /\ Classified /\ Len(snapshot.forms) = 0 /\ ~ErrorsPresent
    /\ ~SuccessesPresent /\ ~UrlSuggestsLogin /\ ~MentionsSearch
    /\ Contains("Result", snapshot.url) /\ ~Contains("result", Lower(snapshot.title))
    /\ pageState = RESULTS_PAGE

\* the classification rules in their order of precedence
RuleHolds(k) ==
    CASE k = 1 -> ErrorsPresent /\ (LoginFormExists \/ UrlSuggestsLogin)
      [] k = 2 -> ErrorsPresent
      [] k = 3 -> SuccessesPresent
      [] k = 4 -> LoginFormExists \/ UrlSuggestsLogin
      [] k = 5 -> MentionsSearch
      [] k = 6 -> MentionsResult
      [] OTHER -> TRUE

RuleStates ==
    <<LOGIN_ERROR, ERROR_PAGE, LOGIN_SUCCESS, LOGIN_PAGE, SEARCH_PAGE, RESULTS_PAGE,
      UNKNOWN>>

FirstMatchingRule == CHOOSE k \in 1..7 : RuleHolds(k) /\ \A j \in 1..(k - 1) : ~RuleHolds(j)

\* C9: the state returned is that of the first rule that matches, in the order
\* LoginError, ErrorPage, LoginSuccess, LoginPage, SearchPage, ResultsPage,
\* Unknown, and it is one of the seven states.
C9_FirstMatchingRuleWins ==
    Classified => (pageState = RuleStates[FirstMatchingRule] /\ pageState \in PageState)

\* the case of C9 where four rules match at once and the earliest of them wins
C9_Witness ==
    /\ Classified
    /\ RuleHolds(3) /\ RuleHolds(4) /\ RuleHolds(5) /\ RuleHolds(6)
    /\ ~RuleHolds(1) /\ ~RuleHolds(2)
    /\ pageState = LOGIN_SUCCESS

\* the given text, lower-cased, contains one of the login-form indicators
Indicates(text) ==
    \E k \in 1..Len(LoginFormIndicators) : Contains(LoginFormIndicators[k], Lower(text))

\* some input of some form of the snapshot has an indicator in its name, id or type
NameIdOrTypeIndicates ==
    \E f \in 1..Len(snapshot.forms) :
        \E i \in 1..Len(snapshot.forms[f].inputs) :
            \/ Indicates(snapshot.forms[f].inputs[i].name)
            \/ Indicates(snapshot.forms[f].inputs[i].id)
            \/ Indicates(snapshot.forms[f].inputs[i].type)

\* C24: a login form exists exactly when some input of some detected form has an
\* indicator in its name, id or type, so that, of two snapshots without matches
\* and without a login URL, the one classified LoginPage is the one with such an
\* input; a placeholder does not count
C24_LoginFormByNameIdOrType ==
    Classified =>
        /\ LoginFormExists <=> NameIdOrTypeIndicates
        /\ (~ErrorsPresent /\ ~SuccessesPresent /\ ~UrlSuggestsLogin) =>
                (pageState = LOGIN_PAGE <=> NameIdOrTypeIndicates)

---------------------------------------------------------------------------
(* SpecMTO: an MTOAutomation object whose caller logs in and verifies a batch *)

InitMTO ==
    /\ pc = "idle"
    /\ logged_in = FALSE /\ loginRet = "none" /\ postAnalysis = "none"
    /\ loginSeen = NoLoginSeen
    /\ tenure_ids = <<>> /\ idx = 0 /\ results = <<>> /\ batchRet = "none"
    /\ result = NoResult /\ search_dom = <<>> /\ search_field = 0 /\ log = <<>>
    /\ ClassifyIdle /\ FindIdle /\ AnalyzeIdle /\ FillIdle /\ VerifierIdle
    /\ LabelIdle /\ SessionIdle /\ RestIdle

Others ==
    UNCHANGED <<classifyVars, findVars, analyzeVars, fillVars, verifierVars, labelVars,
                sessionVars, restVars>>

NextMTO ==
    \/ Login /\ Others
    \/ LoginAnalyze /\ Others
    \/ LoginFill /\ Others
    \/ LoginVerify /\ Others
    \/ LoginCheck /\ Others
    \/ BatchStart /\ Others
    \/ SearchNavigate /\ Others
    \/ SearchLocate /\ Others
    \/ SearchSubmit /\ Others
    \/ SearchRead /\ Others
    \/ BatchReturn /\ Others

SpecMTO == InitMTO /\ [][NextMTO]_vars

\* C1: for every list of N identifiers and every pattern of failed searches,
\* verify_claims_batch returns exactly N records, record i carrying the i-th
\* identifier; no exception leaves it; after k iterations the results are the
\* first k of the final records, a step only ever appending one record.
C1_BatchReturnsOneRecordPerId ==
    /\ [](/\ batchRet # "raised"
          /\ batchRet \in {"running", "returned"} =>
                /\ Len(results) = idx - 1
                /\ \A i \in 1..Len(results) : results[i].tenure_id = tenure_ids[i]
          /\ batchRet = "returned" => Len(results) = Len(tenure_ids))
    /\ [][results' # results =>
            /\ Len(results') = Len(results) + 1
            /\ SubSeq(results', 1, Len(results)) = results]_vars

\* a batch of two has returned: the first search raised while typing, the second
\* could not navigate
C1_Witness ==
    /\ batchRet = "returned"
    /\ Len(tenure_ids) = 2 /\ Len(results) = 2
    /\ "error" \in DOMAIN results[1] /\ results[1].error = ExcText("send_keys")
    /\ "error" \in DOMAIN results[2]
    /\ results[2].error = "Failed to navigate to search page"

\* C6: no exception leaves MTOAutomation.login; a browser call that raises at any
\* step, the read of the URL after the submit included, gives a False return.
C6_LoginNeverRaises ==
    loginRet # "raised"

\* the URL read at the end of the last login() call shows the target site
UrlOnTargetSite == Contains("mtonline", Lower(loginSeen.url))

\* the last login() call navigated, filled the form, analysed the page after the
\* submit and, unless that page was a login error, read the current URL
LoginJudged ==
    /\ pc = "idle"
    /\ loginSeen.filled = "true"
    /\ loginSeen.post # "none"
    /\ loginSeen.post # LOGIN_ERROR => loginSeen.url # "none"

ReachedResultPage == {i \in 1..Len(results) : "page_text_snippet" \in DOMAIN results[i]}

SaysExpired(i) ==
    \/ Contains("expired", results[i].page_text_snippet)
    \/ Contains("forfeited", results[i].page_text_snippet)

SaysActive(i) ==
    \/ Contains("active", results[i].page_text_snippet)
    \/ Contains("good standing", results[i].page_text_snippet)

SaysNotFound(i) ==
    \/ Contains("not found", results[i].page_text_snippet)
    \/ Contains("no results", results[i].page_text_snippet)

Verdict(i) == <<results[i].status, results[i].available>>

\* C14: a search that reaches the result page takes its status from the first
\* rule its lower-cased page text matches: 'expired' or 'forfeited' gives
\* (expired, True); else 'active' or 'good standing' gives (active, False); else
\* 'not found' or 'no results' gives (not_found, False); else (unknown, False)
C14_StatusByFirstMatchingRule ==
    \A i \in ReachedResultPage :
        /\ results[i].page_text_snippet = Lower(results[i].page_text_snippet)
        /\ SaysExpired(i) => Verdict(i) = <<"expired", TRUE>>
        /\ ~SaysExpired(i) /\ SaysActive(i) => Verdict(i) = <<"active", FALSE>>
        /\ ~SaysExpired(i) /\ ~SaysActive(i) /\ SaysNotFound(i) =>
                Verdict(i) = <<"not_found", FALSE>>
        /\ ~SaysExpired(i) /\ ~SaysActive(i) /\ ~SaysNotFound(i) =>
                Verdict(i) = <<"unknown", FALSE>>

\* a batch whose first page says both 'forfeited' and 'active' and whose second
\* says both 'active' and 'not found'
C14_Witness ==
    /\ batchRet = "returned"
    /\ ReachedResultPage = {1, 2}
    /\ SaysExpired(1) /\ SaysActive(1) /\ Verdict(1) = <<"expired", TRUE>>
    /\ SaysActive(2) /\ SaysNotFound(2) /\ Verdict(2) = <<"active", FALSE>>

\* the page states that end a flow
TerminalStates == {LOGIN_ERROR, ERROR_PAGE}

\* C19: when the analysis before the fill or the analysis after the submit
\* reports LoginError or ErrorPage, login goes no further: the form is not
\* filled after such a first analysis, and True is not returned after either.
C19_TerminalStateStopsLogin ==
    /\ loginSeen.pre \in TerminalStates => loginSeen.filled = "none"
    /\ (pc = "idle" /\ loginSeen.pre \in TerminalStates) => loginRet # "true"
    /\ (pc = "idle" /\ loginSeen.post \in TerminalStates) => loginRet # "true"

\* the search requests MTOAutomation sent: the loads of the search URL
SearchRequests == {i \in 1..Len(log) : log[i].op = "get" /\ log[i].url = "search"}

\* the positions of the log where a search_tenure call returned
SearchReturns == {p \in 1..Len(log) : log[p].op = "return"}

RateDelays == {p \in 1..Len(log) : log[p].op = "rate_delay"}

\* how many searches had returned by position p of the log
SearchesDoneBy(p) == Cardinality({q \in SearchReturns : q <= p})

\* C21: in verify_claims_batch the return of every search but the last is
\* followed by exactly one rate-limiting delay, then by the first browser call
\* of the next search, whether the search failed or not; nothing follows the
\* return of the last search
C21_OneDelayBetweenSearches ==
    /\ \A p \in SearchReturns :
            IF SearchesDoneBy(p) < Len(tenure_ids)
            THEN /\ p < Len(log) /\ log[p + 1].op = "rate_delay"
                 /\ p + 2 <= Len(log) => log[p + 2].op = "get"
            ELSE p = Len(log)
    /\ \A p \in RateDelays : p > 1 /\ log[p - 1].op = "return"
    /\ \A p \in SearchRequests : p > 1 => log[p - 1].op = "rate_delay"
    /\ batchRet = "returned" =>
            Cardinality(RateDelays) = (IF tenure_ids = <<>> THEN 0 ELSE Len(tenure_ids) - 1)

\* a batch of two has returned: the first search failed, one delay followed it
\* and none followed the second
C21_Witness ==
    /\ batchRet = "returned"
    /\ Len(tenure_ids) = 2 /\ Len(results) = 2
    /\ "error" \in DOMAIN results[1]
    /\ Cardinality(RateDelays) = 1
    /\ log[Len(log)].op = "return"

\* the records search_tenure returned that did not reach the result page
EndedEarly == {i \in 1..Len(results) : "error" \in DOMAIN results[i]}

\* C30: in every record search_tenure returns, available is True exactly when
\* the status is 'expired'; a record of an early exit or of an exception has
\* available False
C30_AvailableIffExpired ==
    /\ \A i \in 1..Len(results) : results[i].available <=> results[i].status = "expired"
    /\ \A i \in EndedEarly : ~results[i].available /\ results[i].status = "unknown"

\* a batch of two: the first search raised, the second found the tenure expired
C30_Witness ==
    /\ Len(results) = 2
    /\ EndedEarly = {1} /\ results[1].error = ExcText("send_keys")
    /\ results[2].status = "expired" /\ results[2].available

\* C31: every record search_tenure returns, and so every record of
\* verify_claims_batch, carries the identifier that was asked for and a status
\* among expired, active, not_found and unknown; a search made without a login,
\* one that could not navigate, one that found no field and one that raised
\* never give 'assumed_available'
C31_RecordsCarryIdAndKnownStatus ==
    /\ \A i \in 1..Len(results) :
        /\ results[i].tenure_id = tenure_ids[i]
        /\ results[i].status \in {"expired", "active", "not_found", "unknown"}
        /\ results[i].status # "assumed_available"
    /\ pc \in {"search_locate", "search_submit", "search_read"} =>
        /\ result.tenure_id = tenure_ids[idx]
        /\ result.status \in {"expired", "active", "not_found", "unknown"}

\* a batch of two searched without a login: the first search raised, the second
\* found no search field
C31_Witness ==
    /\ batchRet = "returned" /\ ~logged_in
    /\ Len(results) = 2
    /\ results[1].tenure_id = "1001" /\ results[2].tenure_id = "1002"
    /\ "error" \in DOMAIN results[1] /\ results[1].error = ExcText("click")
    /\ "error" \in DOMAIN results[2] /\ results[2].error = "Could not find search field"
    /\ results[1].status = "unknown" /\ results[2].status = "unknown"

\* C33: the logged-in flag starts False; it changes only from False to True and
\* only in the step in which a login() call returns True; a login() call that
\* returns False or raises, and every step of a search, leave it as it was, so
\* that once True it stays True
C33_LoggedInSetOnlyBySuccessfulLogin ==
    /\ ~logged_in
    /\ [][/\ logged_in' # logged_in =>
                /\ ~logged_in /\ logged_in'
                /\ pc = "login_check" /\ loginRet' = "true"
          /\ (loginRet' # loginRet /\ loginRet' \in {"false", "raised"}) =>
                logged_in' = logged_in
          /\ pc \in {"batch_loop", "search_locate", "search_submit", "search_read"} =>
                logged_in' = logged_in
          /\ logged_in => logged_in']_vars

\* a login succeeded, a later login() call returned False, and a batch was then
\* searched with the flag still True
C33_Witness ==
    /\ logged_in /\ loginRet = "false"
    /\ batchRet = "returned" /\ Len(results) = 2
    /\ \A i \in SearchRequests : log[i].auth

\* the p-th position of a set of log positions, in log order
NthOf(S, n) == CHOOSE p \in S : Cardinality({q \in S : q <= p}) = n

\* the part of the log that search i wrote: from its request to its return
SearchLog(i) == NthOf(SearchRequests, i)..NthOf(SearchReturns, i)

TypedIn(i) == \E p \in SearchLog(i) : log[p].op = "type"
SubmittedIn(i) == \E p \in SearchLog(i) : log[p].op \in {"click", "submit"}
CaughtIn(i) == log[NthOf(SearchReturns, i)].caught

\* what the step wrote to the log
Logged(old, new) == {p \in 1..Len(new) : p > Len(old)}

\* C34: a search whose navigation fails, or that finds no search field, ends
\* without typing the identifier and without a submission, and its record has
\* status 'unknown', available False and an error text; a record has an error
\* entry exactly when the search did not get to read the result page, that is
\* when it ended by one of these two exits or by an exception
C34_EarlyExitsTypeNothingAndCarryError ==
    /\ [](\A i \in 1..Len(results) :
            /\ "error" \in DOMAIN results[i] <=> ~(SubmittedIn(i) /\ CaughtIn(i) = "")
            /\ "error" \in DOMAIN results[i] <=> "page_text_snippet" \notin DOMAIN results[i]
            /\ ("error" \in DOMAIN results[i] /\ CaughtIn(i) = "") =>
                    /\ ~TypedIn(i) /\ ~SubmittedIn(i)
                    /\ results[i].error \in {"Failed to navigate to search page",
                                             "Could not find search field"}
                    /\ results[i].status = "unknown" /\ ~results[i].available)
    /\ [][(/\ pc \in {"batch_loop", "search_locate"}
           /\ pc' = "batch_loop" /\ idx' = idx + 1) =>
                LET r == results'[Len(results')]
                IN  /\ \A p \in Logged(log, log') : log'[p].op \notin {"type", "click", "submit"}
                    /\ "error" \in DOMAIN r /\ r.error # ""
                    /\ r.status = "unknown" /\ ~r.available]_vars

\* a batch of two: the first search could not navigate, the second found no
\* search field; the identifier was never typed
C34_Witness ==
    /\ batchRet = "returned" /\ Len(results) = 2
    /\ "error" \in DOMAIN results[1] /\ "error" \in DOMAIN results[2]
    /\ results[1].error = "Failed to navigate to search page"
    /\ results[2].error = "Could not find search field"
    /\ CaughtIn(1) = "" /\ CaughtIn(2) = ""
    /\ \A p \in 1..Len(log) : log[p].op \notin {"type", "click", "submit"}

\* the steps of verify_claims_batch and of the searches it makes, all of them
\* steps of a batch that is running
BatchSteps ==
    IF batchRet = "running"
    THEN (SearchNavigate \/ SearchLocate \/ SearchSubmit \/ SearchRead \/ BatchReturn)
         /\ Others
    ELSE FALSE

\* where a batch stands: every step of a batch changes it
batchPosition == <<pc, idx, batchRet>>

\* a caller that verifies a batch without a login
NextBatch ==
    \/ BatchStart /\ Others
    \/ SearchNavigate /\ Others
    \/ SearchLocate /\ Others
    \/ SearchSubmit /\ Others
    \/ SearchRead /\ Others
    \/ BatchReturn /\ Others

\* every browser call of a batch returns or times out: a batch that can take a
\* step takes one
SpecBatchLive == InitMTO /\ [][NextBatch]_vars /\ WF_batchPosition(BatchSteps)

\* how often the list names an identifier, and how often it was searched
Occurrences(id) == Cardinality({i \in 1..Len(tenure_ids) : tenure_ids[i] = id})

SearchesOf(id) == Cardinality({p \in SearchRequests : log[p].id = id})

\* C38: verify_claims_batch terminates for every list of identifiers when each
\* browser call returns or times out: a batch that was started returns, having
\* made exactly as many searches as the list has entries, one for each entry in
\* list order, none made again
C38_BatchTerminatesAfterNSearches ==
    /\ (batchRet = "running") ~> (batchRet = "returned")
    /\ [](/\ Cardinality(SearchRequests) <= Len(tenure_ids)
          /\ \A i \in 1..Len(tenure_ids) : SearchesOf(tenure_ids[i]) <= Occurrences(tenure_ids[i])
          /\ \A n \in 1..Cardinality(SearchRequests) :
                log[NthOf(SearchRequests, n)].id = tenure_ids[n]
          /\ batchRet = "returned" =>
                /\ Cardinality(SearchRequests) = Len(tenure_ids)
                /\ Cardinality(SearchReturns) = Len(tenure_ids)
                /\ idx = Len(tenure_ids) + 1)
    /\ [][batchRet = "running" => idx' \in {idx, idx + 1}]_batchPosition

\* a batch of two returned after two searches, both of which failed: neither
\* was made again
C38_Witness ==
    /\ batchRet = "returned" /\ tenure_ids = <<"1001", "1002">>
    /\ Cardinality(SearchRequests) = 2
    /\ SearchesOf("1001") = 1 /\ SearchesOf("1002") = 1
    /\ EndedEarly = {1, 2}
    /\ CaughtIn(1) = ExcText("execute_script") /\ CaughtIn(2) = ExcText("wait_for_element")

---------------------------------------------------------------------------
(* SpecVerifier: one call of verify_availability_mto;
   SpecPipelines: either an MTOAutomation caller or verify_availability_mto runs *)

InitVerifier ==
    /\ vcall \in [environ : Environments, df : Frames]
    /\ vpc = "start" /\ df_expired = <<>> /\ vlogin = "none" /\ sessions = <<>>
    /\ verified = <<>> /\ row_i = 0 /\ vlog = <<>> /\ vret = "none" /\ out = <<>>
    /\ ClassifyIdle /\ FindIdle /\ AnalyzeIdle /\ FillIdle /\ MTOIdle
    /\ LabelIdle /\ SessionIdle /\ RestIdle

VerifierOthers ==
    UNCHANGED <<classifyVars, findVars, analyzeVars, fillVars, mtoVars, labelVars,
                sessionVars, restVars>>

NextVerifier ==
    \/ VerifierStart /\ VerifierOthers
    \/ VerifierLoginBlock /\ VerifierOthers
    \/ VerifierSession /\ VerifierOthers
    \/ VerifierSearchRow /\ VerifierOthers
    \/ VerifierFinish /\ VerifierOthers

SpecVerifier == InitVerifier /\ [][NextVerifier]_vars

InitPipelines == InitMTO \/ InitVerifier

NextPipelines == NextMTO \/ NextVerifier

SpecPipelines == InitPipelines /\ [][NextPipelines]_vars

LoginFailed == loginRet \in {"false", "raised"}

VerifierLoginFailed == vlogin \in {"exception", "error_page"}

AllAssumedAvailable(frame) ==
    \A i \in 1..Len(frame) : frame[i].mto_status = "assumed_available"

Returns == SelectSeq(log, LAMBDA e : e.op = "return")

\* C3 as stated: a search that raises gives exactly that identifier's record the
\* status 'assumed_available' and the exception text in its error field.
C3_Original ==
    /\ \A k \in 1..Len(results) :
            Returns[k].caught # "" =>
                /\ results[k].status = "assumed_available"
                /\ results[k].error = Returns[k].caught
    /\ \A i \in 1..Len(verified) :
            vlog[i] =>
                /\ verified[i].mto_status = "assumed_available"
                /\ "error" \in DOMAIN verified[i]

\* the sessions verify_availability_mto created after the one of its login block
SearchSessions == {i \in 1..Len(sessions) : i > 1}

\* C18: a search request is sent only after a login that succeeded, and once a
\* run has taken the assumed-available branch it sends none
C18_SearchOnlyWhenAuthenticated ==
    /\ \A i \in SearchRequests : log[i].auth
    /\ SearchRequests # {} => loginRet = "true"
    /\ (vpc = "search" \/ verified # <<>>) => vlogin = "ok"
    /\ vlogin \in {"no_credentials", "exception", "error_page"} =>
            verified = <<>> /\ vlog = <<>> /\ SearchSessions = {}

\* C20: the session that logged in is the one every search of the run uses: no
\* session is quit or created between the login and the searches
C20_SearchesUseTheLoginSession ==
    (vpc = "search" \/ verified # <<>>) =>
        /\ Len(sessions) = 1
        /\ vpc = "search" => sessions[1] = "open"

\* the sessions of the run that were not quit: open, or left by a quit that raised
NotQuit == {i \in 1..Len(sessions) : sessions[i] # "quit"}

\* C26: at most one browser session is open at any time: when a session is
\* created, every session created before it has been quit
C26_AtMostOneSessionOpen ==
    /\ Cardinality(NotQuit) <= 1
    /\ \A i \in NotQuit : i = Len(sessions)

\* the searches run in the second session of the run, the first one quit
C26_Witness ==
    /\ vpc = "search" /\ row_i = 2
    /\ sessions = <<"quit", "open">>

\* C35: when verify_availability_mto returns, after a login that timed out,
\* raised or met an error page, after searches that raised and after a run
\* without failure alike, every browser session it opened has been quit; a
\* session is left behind only by a call that ends in an exception
C35_EverySessionQuitBeforeReturn ==
    /\ vret = "returned" => \A i \in 1..Len(sessions) : sessions[i] = "quit"
    /\ (vpc = "done" /\ NotQuit # {}) => vret = "raised"
    /\ (vret = "returned" /\ vlogin \in {"exception", "error_page"}) => Len(sessions) <= 1
    /\ (vret = "returned" /\ vlogin = "ok") => sessions = <<"quit", "quit">>

\* a run whose login succeeded and whose two searches both raised has returned:
\* both sessions were quit
C35_Witness ==
    /\ vret = "returned" /\ vlogin = "ok"
    /\ sessions = <<"quit", "quit">>
    /\ vlog = <<TRUE, TRUE>>

\* neither variable of the username, or neither variable of the password, holds
\* a value
CredentialMissing ==
    \/ vcall.environ.MTO_USERNAME \in {Unset, ""} /\ vcall.environ.BCEID_USERNAME \in {Unset, ""}
    \/ vcall.environ.MTO_PASSWORD \in {Unset, ""} /\ vcall.environ.BCEID_PASSWORD \in {Unset, ""}

\* C28: when a credential is missing from the environment, verify_availability_mto
\* opens no browser session and returns every input row, in order, marked
\* 'assumed_available'; with both credentials it goes on to the login
C28_NoCredentialsNoSession ==
    (vpc \notin {"none", "start"}) =>
        IF CredentialMissing
        THEN /\ sessions = <<>>
             /\ vpc = "done" /\ vret = "returned"
             /\ Len(out) = Len(vcall.df)
             /\ \A i \in 1..Len(out) :
                    /\ out[i].TENURE_NUMBER_ID = vcall.df[i].TENURE_NUMBER_ID
                    /\ out[i].mto_status = "assumed_available"
        ELSE vlogin # "no_credentials"

\* only the password is set, and a frame of two rows came back assumed available
C28_Witness ==
    /\ vpc = "done" /\ vret = "returned"
    /\ vcall.environ = Environ("", Unset, "secret", Unset)
    /\ Len(vcall.df) = 2 /\ Len(out) = 2
    /\ vlogin = "no_credentials" /\ sessions = <<>>

\* C3: when a search of verify_availability_mto raises, that row gets
\* 'assumed_available' and no error field (the exception is only logged); when
\* the except clause of search_tenure catches an exception, that record keeps
\* status unknown, available False, and gets the exception text as its error. In
\* both, each record carries its own identifier, records already appended never
\* change, and the loop goes on until every identifier has its record.
C3_SearchExceptionMarksOnlyThatRecord ==
    /\ [](/\ Len(vlog) = Len(verified)
          /\ \A i \in 1..Len(verified) :
                /\ verified[i].TENURE_NUMBER_ID = df_expired[i].TENURE_NUMBER_ID
                /\ vlog[i] =>
                        /\ verified[i].mto_status = "assumed_available"
                        /\ DOMAIN verified[i] = {"TENURE_NUMBER_ID", "mto_status"}
                /\ ~vlog[i] => verified[i].mto_status \in {"available", "not_available"}
          /\ (vret = "returned" /\ vlogin = "ok") =>
                (Len(verified) = Len(df_expired) /\ out = verified)
          /\ Len(Returns) = Len(results)
          /\ \A k \in 1..Len(results) :
                /\ results[k].tenure_id = tenure_ids[k]
                /\ Returns[k].caught # "" =>
                        /\ results[k].status = "unknown"
                        /\ results[k].available = FALSE
                        /\ results[k].error = Returns[k].caught
          /\ batchRet = "returned" => Len(results) = Len(tenure_ids))
    /\ [][/\ SubSeq(verified', 1, Len(verified)) = verified
          /\ SubSeq(results', 1, Len(results)) = results]_vars

\* the first of two searches of verify_availability_mto raised, the second found
\* the tenure expired, and both rows were returned
C3_Witness ==
    /\ vret = "returned" /\ vlog = <<TRUE, FALSE>>
    /\ Len(out) = 2
    /\ out[1].mto_status = "assumed_available"
    /\ out[2].mto_status = "available"

\* the except clause of search_tenure ran for the first of two identifiers and the
\* batch returned both records
SearchExceptionCaughtInBatch ==
    /\ batchRet = "returned" /\ Len(results) = 2
    /\ Returns[1].caught # "" /\ Returns[2].caught = ""
    /\ results[2].status = "expired"

---------------------------------------------------------------------------
(* SpecLabel: _find_label_for_element applied to an element of a page *)

InitLabel ==
    /\ labelArgs \in [element : LabelledElements, labels : PageLabels,
                      failing : LabelSites \cup {"none"}]
    /\ labelResult = [pc |-> "pending"]
    /\ ClassifyIdle /\ FindIdle /\ AnalyzeIdle /\ FillIdle /\ MTOIdle /\ VerifierIdle
    /\ SessionIdle /\ RestIdle

FindLabel ==
    /\ labelResult.pc = "pending"
    /\ labelResult' = [pc |-> "done"] @@
            FindLabelForElement(labelArgs.element, labelArgs.labels, labelArgs.failing)
    /\ UNCHANGED <<labelArgs, classifyVars, findVars, analyzeVars, fillVars, mtoVars,
                   verifierVars, sessionVars, restVars>>

NextLabel == FindLabel

SpecLabel == InitLabel /\ [][NextLabel]_vars

\* the element has a label that is for its id
HasLabelFor ==
    /\ labelArgs.element.id # ""
    /\ \E i \in 1..Len(labelArgs.labels) : labelArgs.labels[i].for = labelArgs.element.id

\* the text of the first label of the page that is for the element's id
LabelForText ==
    labelArgs.labels[CHOOSE i \in 1..Len(labelArgs.labels) :
                        /\ labelArgs.labels[i].for = labelArgs.element.id
                        /\ \A j \in 1..(i - 1) :
                                labelArgs.labels[j].for # labelArgs.element.id].text

\* C11: the label of an element is the text of its label[for=id], else the text
\* of its ancestor label, else its placeholder, the first that is there winning:
\* with a label[for] and a placeholder the result is the label[for] text, with an
\* ancestor label (and no label[for]) and a placeholder it is the ancestor's text
\* (checked for every lookup the browser answers without raising).
C11_LabelPriority ==
    (labelResult.pc = "done" /\ labelArgs.failing = "none") =>
        IF HasLabelFor
        THEN ~labelResult.none /\ labelResult.text = LabelForText
        ELSE IF Len(labelArgs.element.ancestors) > 0
        THEN ~labelResult.none /\ labelResult.text = labelArgs.element.ancestors[1]
        ELSE IF labelArgs.element.placeholder # ""
        THEN ~labelResult.none /\ labelResult.text = labelArgs.element.placeholder
        ELSE labelResult.none

\* an element with a label[for], an ancestor label and a placeholder, all three of
\* different texts, got the label[for] text
C11_Witness ==
    /\ labelResult.pc = "done" /\ labelArgs.failing = "none"
    /\ HasLabelFor /\ LabelForText = "User ID"
    /\ Len(labelArgs.element.ancestors) > 0 /\ labelArgs.element.ancestors[1] = "Name"
    /\ labelArgs.element.placeholder = "Enter user"
    /\ labelResult.text = "User ID"

---------------------------------------------------------------------------
(* SpecSession: one automation object, constructed and then called *)

\* calls made on one object
MaxCalls == 3

AutomationClasses == {"SafariAutomation", "MTOAutomation"}

\* one entry of the history
Called(op, raised, ret, env) == [op |-> op, raised |-> raised, ret |-> ret, env |-> env]

InitSession ==
    /\ object = "none" /\ session = "absent" /\ history = <<>>
    /\ ClassifyIdle /\ FindIdle /\ AnalyzeIdle /\ FillIdle /\ MTOIdle /\ VerifierIdle
    /\ LabelIdle /\ RestIdle

SessionOthers ==
    UNCHANGED <<classifyVars, findVars, analyzeVars, fillVars, mtoVars, verifierVars,
                labelVars, restVars>>

\* SafariAutomation() or MTOAutomation(): __init__ sets self.driver = None and
\* calls _initialize_driver; MTOAutomation.__init__ calls it through super()
Construct ==
    /\ object = "none"
    /\ \E class \in AutomationClasses, create \in {"ok", "unreachable"},
          setup \in {"ok", "error"} :
        LET made == InitializeDriver(create, setup)
        IN  /\ object' = IF made.raised THEN "failed" ELSE "constructed"
            /\ session' = made.session
            /\ history' = <<Called("__init__", made.raised, "None", <<class, create, setup>>)>>
    /\ SessionOthers

CanCall == object = "constructed" /\ Len(history) < MaxCalls

\* navigate(url, wait_for_load): on a session that is gone driver.get raises
NavigateCall ==
    /\ CanCall
    /\ \E get \in (IF session = "open" THEN {"ok", "error"} ELSE {"error"}),
          wait \in WaitOutcomes, wait_for_load \in BOOLEAN :
        LET done == NavigateTo(get, wait, wait_for_load)
        IN  history' = Append(history,
                Called("navigate", done.raised, IF done.ret THEN "True" ELSE "False",
                       <<get, wait, wait_for_load>>))
    /\ UNCHANGED <<object, session>>
    /\ SessionOthers

\* the browser calls of analyze_page that may raise: every one of them on a
\* session that is gone
SessionFaults ==
    IF session = "open" THEN {{}, {"title"}, {"title", "handler_url"}} ELSE {AnalyzeSites}

\* analyze_page()
AnalyzeCall ==
    /\ CanCall
    /\ \E page \in {LoginPage, SiteErrorPage}, faults \in SessionFaults :
        \E a \in AnalyzePage(page, faults) :
            history' = Append(history,
                Called("analyze_page", a.raised, IF a.raised THEN "None" ELSE a.state,
                       <<page.url, faults>>))
    /\ UNCHANGED <<object, session>>
    /\ SessionOthers

\* close(): self.driver is set on every object the constructor returned
CloseCall ==
    /\ CanCall
    /\ \E quit \in QuitOutcomes(session) :
        LET done == Close(TRUE, session, quit)
        IN  /\ session' = done.session
            /\ history' = Append(history,
                    Called("close", done.raised, "None", <<session, quit.raises>>))
    /\ UNCHANGED object
    /\ SessionOthers

NextSession == Construct \/ NavigateCall \/ AnalyzeCall \/ CloseCall

SpecSession == InitSession /\ [][NextSession]_vars

Calls(op) == {i \in 1..Len(history) : history[i].op = op}

\* the environment of navigate call i: how driver.get and the readiness wait
\* ended, and the wait_for_load argument
GetOf(i)         == history[i].env[1]
WaitOf(i)        == history[i].env[2]
WaitForLoadOf(i) == history[i].env[3]

\* C15: navigate never raises; a readiness wait that times out after a load that
\* succeeded still gives True; False is returned exactly when the load raises
\* or the readiness wait raises something other than a timeout
C15_ReadinessTimeoutIsNotAFailure ==
    \A i \in Calls("navigate") :
        /\ ~history[i].raised
        /\ history[i].ret \in {"True", "False"}
        /\ (GetOf(i) = "ok" /\ WaitOf(i) = "timeout") => history[i].ret = "True"
        /\ history[i].ret = "False" <=>
                \/ GetOf(i) = "error"
                \/ WaitForLoadOf(i) /\ WaitOf(i) = "error"

\* a navigation whose readiness wait timed out returned True, and the caller went
\* on to analyse the page
C15_Witness ==
    /\ Len(history) = 3
    /\ history[2].op = "navigate" /\ history[2].ret = "True"
    /\ GetOf(2) = "ok" /\ WaitOf(2) = "timeout" /\ WaitForLoadOf(2)
    /\ history[3].op = "analyze_page" /\ ~history[3].raised

\* the close calls that found the session open
ClosesOfOpenSession == {i \in Calls("close") : history[i].env[1] = "open"}

\* C16: close never raises, whatever the state of the session and however often
\* it is called; once a close has had driver.quit() return, the session is
\* released; a quit that raises is swallowed and may leave the session open
C16_CloseNeverRaisesReleasesWhenQuitReturns ==
    /\ \A i \in Calls("close") : ~history[i].raised
    /\ (\E i \in Calls("close") : ~history[i].env[2]) => session = "released"

\* closed twice: the first quit raised and left the session open, the second
\* released it
C16_Witness ==
    /\ Len(history) = 3
    /\ history[2].op = "close" /\ history[2].env = <<"open", TRUE>>
    /\ history[3].op = "close" /\ history[3].env = <<"open", FALSE>>
    /\ session = "released"

\* C16 as stated: close never raises in any state, and after the first close the
\* session is released
C16_Original ==
    /\ \A i \in Calls("close") : ~history[i].raised
    /\ Calls("close") # {} => session = "released"

\* C17: a constructor that cannot reach the automation endpoint raises and
\* leaves no object to call, and no other call of the subsystem raises
C17_OnlyConstructionPropagates ==
    /\ \A i \in Calls("__init__") :
            history[i].env[2] = "unreachable" =>
                history[i].raised /\ object = "failed" /\ Len(history) = 1
    /\ \A i \in 1..Len(history) : history[i].raised => history[i].op = "__init__"

---------------------------------------------------------------------------
(* SpecScan: _detect_elements applied to pages of many elements *)

\* how many elements of one kind a page has
KindCounts == {0, 1, 20, 22}

\* which elements of a kind are stale, by their rank among the elements of the kind
StaleRanks == {{}, {1}, {20}, {21}, {2, 21}}

\* n elements of one tag, the first with document position from + 1, which is
\* also its id
Several(tag, n, from, stale) ==
    [r \in 1..n |->
        Element(tag, IF tag = "input" /\ r = 3 THEN "hidden" ELSE "", "", ToString(from + r),
                [displayed |-> TRUE, enabled |-> r # 2, stale |-> r \in stale])]

\* a page: its textareas come first in the document and its inputs last
LargeDom(n, stale) ==
    LET t == Several("textarea", n[5], 0, stale)
        c == t \o Several("select", n[4], Len(t), stale)
        a == c \o Several("a", n[3], Len(c), stale)
        b == a \o Several("button", n[2], Len(a), stale)
    IN  b \o Several("input", n[1], Len(b), stale)

LargeDoms ==
    {LargeDom(<<i, b, a, c, t>>, stale) :
        i \in KindCounts, b \in {0, 21}, a \in {0, 1}, c \in {0, 1}, t \in {0, 1},
        stale \in StaleRanks}

InitScan ==
    /\ scan \in [pc : {"pending"}, elements : LargeDoms, faults : {{}, {"elements"}}]
    /\ autopilot = [pc |-> "idle"] /\ merit = [pc |-> "idle"]
    /\ ClassifyIdle /\ FindIdle /\ AnalyzeIdle /\ FillIdle /\ MTOIdle /\ VerifierIdle
    /\ LabelIdle /\ SessionIdle

\* _detect_elements()
DetectElementsCall ==
    /\ scan.pc = "pending"
    /\ scan' = [scan EXCEPT !.pc = "done"] @@
                [found |-> DetectElements([elements |-> scan.elements], scan.faults)]
    /\ UNCHANGED <<classifyVars, findVars, analyzeVars, fillVars, mtoVars, verifierVars,
                   labelVars, sessionVars, autopilot, merit>>

NextScan == DetectElementsCall

SpecScan == InitScan /\ [][NextScan]_vars

\* the elements returned of one kind, by position in the list returned
FoundOfKind(kind) == {i \in 1..Len(scan.found) : scan.found[i].element_type = kind}

\* the place of a kind in the order input, button, link, select, textarea
KindRank(kind) == CHOOSE k \in 1..Len(KindNames) : KindNames[k] = kind

\* the document positions of the elements a selector of _detect_elements finds
OnPage(k) ==
    {p \in 1..Len(scan.elements) :
        /\ scan.elements[p].tag = ElementKinds[k]
        /\ ~(ElementKinds[k] = "input" /\ scan.elements[p].type = "hidden")}

\* those among the first twenty of their kind that are not stale
ReadOnPage(k) ==
    {p \in OnPage(k) :
        /\ Cardinality({q \in OnPage(k) : q <= p}) <= 20
        /\ ~scan.elements[p].stale}

\* the document position of an element returned
PositionOf(i) ==
    CHOOSE p \in 1..Len(scan.elements) : scan.elements[p].id = scan.found[i].identifier

\* C25: _detect_elements returns at most 20 elements of each kind and at most 100
\* in all, grouped in the order input, button, link, select, textarea; of each
\* kind it returns, in document order, the first twenty the page has less the
\* stale ones among them
C25_TwentyPerKindStaleSkipped ==
    scan.pc = "done" =>
        /\ Len(scan.found) <= 100
        /\ \A k \in 1..Len(KindNames) : Cardinality(FoundOfKind(KindNames[k])) <= 20
        /\ \A i, j \in 1..Len(scan.found) :
                i < j => KindRank(scan.found[i].element_type)
                            <= KindRank(scan.found[j].element_type)
        /\ scan.faults = {} =>
                /\ \A k \in 1..Len(KindNames) :
                        {PositionOf(i) : i \in FoundOfKind(KindNames[k])} = ReadOnPage(k)
                /\ \A i, j \in 1..Len(scan.found) :
                        (i < j /\ scan.found[i].element_type = scan.found[j].element_type)
                            => PositionOf(i) < PositionOf(j)

\* a page of 21 visible inputs and 21 buttons whose second input and second
\* button are stale: 19 inputs and 19 buttons are returned, the inputs first
C25_Witness ==
    /\ scan.pc = "done" /\ scan.faults = {}
    /\ Cardinality(OnPage(1)) = 21 /\ Cardinality(OnPage(2)) = 21
    /\ Cardinality(FoundOfKind("input")) = 19
    /\ Cardinality(FoundOfKind("button")) = 19
    /\ scan.found[1].element_type = "input"
    /\ Len(scan.found) > 38

---------------------------------------------------------------------------
(* SpecAutopilot: verify_availability_mto of the autopilot script, which talks to
   the site with HTTP requests *)

\* df_expired.head(50)
HeadRows == 50

HeadOf(df, n) == SubSeq(df, 1, Min(n, Len(df)))

\* the sizes of the frames the function is called with; the caller never passes
\* an empty frame
AutopilotFrameSizes == {1, 2, 49, 50, 51, 52}

AutopilotFrame(n) == [i \in 1..n |-> [TENURE_NUMBER_ID |-> ToString(i)]]

\* how the login block ends: the site accepted the login, the answer to the POST
\* mentions an error or is not on the target site, or a request raised
AutopilotLogins == {"ok", "rejected", "exception"}

\* what the site answers to the search of one row: a result page, or a request
\* that raises
SearchAnswers ==
    {[raises |-> FALSE] @@ page : page \in ResultPages}
        \cup {[raises |-> TRUE, span |-> NoTag, td |-> NoTag]}

\* the rows whose answer may differ from that of the others
OddRows == {1, HeadRows, HeadRows + 1}

AnswerTo(i, answers) == IF i \in OddRows THEN answers.odd ELSE answers.base

\* one iteration of the search loop: the row with its mto_status
AutopilotSearch(row, answer) ==
    SetKey(row, "mto_status",
           IF answer.raises THEN "assumed_available" ELSE VerifierStatus(answer))

\* verify_availability_mto: the frame it returns
AutopilotVerify(df, login, answers) ==
    IF login # "ok" THEN AssumeAll(df)
    ELSE LET head == HeadOf(df, HeadRows)
         IN  [i \in 1..Len(head) |-> AutopilotSearch(head[i], AnswerTo(i, answers))]

InitAutopilot ==
    /\ autopilot \in [pc : {"pending"}, df : {AutopilotFrame(n) : n \in AutopilotFrameSizes}]
    /\ scan = [pc |-> "idle"] /\ merit = [pc |-> "idle"]
    /\ ClassifyIdle /\ FindIdle /\ AnalyzeIdle /\ FillIdle /\ MTOIdle /\ VerifierIdle
    /\ LabelIdle /\ SessionIdle

\* verify_availability_mto(df_expired)
AutopilotVerifyCall ==
    /\ autopilot.pc = "pending"
    /\ \E login \in AutopilotLogins, answers \in [base : SearchAnswers, odd : SearchAnswers] :
        autopilot' = [pc |-> "done", df |-> autopilot.df, login |-> login,
                      out |-> AutopilotVerify(autopilot.df, login, answers)]
                     @@ (IF login = "ok" THEN [answers |-> answers] ELSE <<>>)
    /\ UNCHANGED <<classifyVars, findVars, analyzeVars, fillVars, mtoVars, verifierVars,
                   labelVars, sessionVars, scan, merit>>

NextAutopilot == AutopilotVerifyCall

SpecAutopilot == InitAutopilot /\ [][NextAutopilot]_vars

\* C27: verify_availability_mto of the autopilot script returns exactly one row
\* for every input row, in input order, on every path: login rejected, login
\* exception, and login accepted with any mix of failed searches
C27_OneRowPerInputRow ==
    autopilot.pc = "done" =>
        /\ Len(autopilot.out) = Len(autopilot.df)
        /\ \A i \in 1..Len(autopilot.out) :
                /\ i <= Len(autopilot.df)
                /\ autopilot.out[i].TENURE_NUMBER_ID = autopilot.df[i].TENURE_NUMBER_ID
                /\ "mto_status" \in DOMAIN autopilot.out[i]

-----------------------------------------------------------------------------
\* confirm_merit_sedar: the stake recommendation of every row

MaxRows == 2

StakeThreshold == 50
ScorePerHit == 10
RegexOnlyScore == 10

\* the r'.*\bInc\b' family, matched with re.IGNORECASE
PublicWords == <<"inc", "corp", "ltd">>
\* the plain company names, matched with re.IGNORECASE
PublicNames == <<"teck resources", "newmont", "barrick gold", "kinross gold", "bhp",
                 "eldorado gold">>

\* re.search(r'.*\bword\b', owner, re.IGNORECASE), on the lower-cased owner
HasWord(word, text) ==
    \E i \in 1..Len(text) :
        /\ i + Len(word) - 1 <= Len(text)
        /\ SubSeq(text, i, i + Len(word) - 1) = word
        /\ WordBoundary(text, i)
        /\ WordBoundary(text, i + Len(word))

\* any(re.search(pattern, owner, re.IGNORECASE) for pattern in public_companies):
\* the patterns, in lower case, are looked for in the lower-cased owner
IsPublicCompany(owner) ==
    LET text == Lower(owner)
    IN  \/ \E k \in DOMAIN PublicWords : HasWord(PublicWords[k], text)
        \/ \E k \in DOMAIN PublicNames : Contains(PublicNames[k], text)

\* row.get('min_core_dist_km', 0)
CoreDistance(row) ==
    IF "min_core_dist_km" \in DOMAIN row THEN row.min_core_dist_km ELSE 0

\* 'yes' if merit_score > 50 else 'no'
Recommend(merit_score) == IF merit_score > StakeThreshold THEN "yes" ELSE "no"

NoLookup == [made |-> FALSE]
LookupRaised == [made |-> TRUE, raises |-> TRUE]
LookupHits(n) == [made |-> TRUE, raises |-> FALSE, hits |-> n]

\* what the disclosure search can answer for one row
Lookups == {LookupRaised} \cup {LookupHits(n) : n \in {0, 6, 7}}

\* a mutant: is_merit taken from the number of hits alone
SedarRowMeritByHits(row, lookup) ==
    LET is_public == IsPublicCompany(row.OWNER_NAME)
        flagged == [is_public_company |-> is_public] @@ row
    IN  IF is_public
        THEN IF ~lookup.raises
             THEN LET merit_score == lookup.hits * ScorePerHit - CoreDistance(row)
                  IN  [is_merit |-> lookup.hits > 0,
                       merit_score |-> merit_score,
                       recommend_stake |-> Recommend(merit_score)] @@ flagged
             ELSE [is_merit |-> is_public, merit_score |-> RegexOnlyScore,
                   recommend_stake |-> Recommend(RegexOnlyScore)] @@ flagged
        ELSE [is_merit |-> FALSE, merit_score |-> 0, recommend_stake |-> "no"] @@ flagged

\* a mutant: a score of exactly 50 is recommended too
SedarRowAtLeastThreshold(row, lookup) ==
    LET is_public == IsPublicCompany(row.OWNER_NAME)
        flagged == [is_public_company |-> is_public] @@ row
    IN  IF is_public
        THEN IF ~lookup.raises
             THEN LET merit_score == lookup.hits * ScorePerHit - CoreDistance(row)
                  IN  [is_merit |-> lookup.hits > 0 \/ is_public,
                       merit_score |-> merit_score,
                       recommend_stake |->
                           IF merit_score >= StakeThreshold THEN "yes" ELSE "no"]
                      @@ flagged
             ELSE [is_merit |-> is_public, merit_score |-> RegexOnlyScore,
                   recommend_stake |-> Recommend(RegexOnlyScore)] @@ flagged
        ELSE [is_merit |-> FALSE, merit_score |-> 0, recommend_stake |-> "no"] @@ flagged

\* the body of the loop of confirm_merit_sedar for one row
SedarRow(row, lookup) ==
    LET is_public == IsPublicCompany(row.OWNER_NAME)
        flagged == [is_public_company |-> is_public] @@ row
    IN  IF is_public
        THEN IF ~lookup.raises
             THEN LET merit_score == lookup.hits * ScorePerHit - CoreDistance(row)
                  IN  [is_merit |-> lookup.hits > 0 \/ is_public,
                       merit_score |-> merit_score,
                       recommend_stake |-> Recommend(merit_score)] @@ flagged
             ELSE [is_merit |-> is_public, merit_score |-> RegexOnlyScore,
                   recommend_stake |-> Recommend(RegexOnlyScore)] @@ flagged
        ELSE [is_merit |-> FALSE, merit_score |-> 0, recommend_stake |-> "no"] @@ flagged

\* confirm_merit_sedar(df_verified): one output row per input row
ConfirmMeritSedar(df, lookups) == [i \in 1..Len(df) |-> SedarRow(df[i], lookups[i])]

\* owners: a word pattern, a company name in another case, a word that only
\* starts like a pattern, a person
MeritOwners == {"Acme Inc", "NEWMONT Gold", "Incline Ltda", "J Smith"}

\* the rows of a frame without the distance column, and of a frame with it
MeritRows == {[TENURE_NUMBER_ID |-> "T1", OWNER_NAME |-> o] : o \in MeritOwners}

MeritRowsWithDistance ==
    {[TENURE_NUMBER_ID |-> "T1", OWNER_NAME |-> o, min_core_dist_km |-> 10] :
        o \in MeritOwners}

\* a frame has a column in all of its rows or in none
MeritFrames ==
    UNION {[1..n -> MeritRows] \cup [1..n -> MeritRowsWithDistance] : n \in 1..MaxRows}

InitMerit ==
    /\ merit \in [pc : {"pending"}, df : MeritFrames]
    /\ scan = [pc |-> "idle"] /\ autopilot = [pc |-> "idle"]
    /\ ClassifyIdle /\ FindIdle /\ AnalyzeIdle /\ FillIdle /\ MTOIdle /\ VerifierIdle
    /\ LabelIdle /\ SessionIdle

\* confirm_merit_sedar(df_verified); the search is made for public owners only
ConfirmMeritSedarCall ==
    /\ merit.pc = "pending"
    /\ LET searched == {i \in 1..Len(merit.df) : IsPublicCompany(merit.df[i].OWNER_NAME)}
       IN  \E lookups \in [1..Len(merit.df) -> Lookups \cup {NoLookup}] :
        /\ \A i \in 1..Len(merit.df) : lookups[i] = NoLookup <=> i \notin searched
        /\ merit' = [pc |-> "done", df |-> merit.df, lookups |-> lookups,
                     out |-> ConfirmMeritSedar(merit.df, lookups)]
    /\ UNCHANGED <<classifyVars, findVars, analyzeVars, fillVars, mtoVars, verifierVars,
                   labelVars, sessionVars, scan, autopilot>>

\* the distances score_geodata computes
ComputedDistances == {25}

\* a mutant: the score and the recommendation are made again from the distance
ScoreGeodataRescoring(df, dists) ==
    [i \in 1..Len(df) |->
        IF i \in DOMAIN dists
        THEN [min_core_dist_km |-> dists[i],
              merit_score |-> df[i].merit_score - dists[i],
              recommend_stake |-> Recommend(df[i].merit_score - dists[i])] @@ df[i]
        ELSE df[i]]

\* score_geodata(df): dists gives the distance of every row with a valid
\* centroid; these rows get it in min_core_dist_km, the other rows keep what
\* they had (a cell without a value is a key the row does not have).  With no
\* valid row, and on every other skip, the frame is returned as it was.
ScoreGeodata(df, dists) ==
    [i \in 1..Len(df) |->
        IF i \in DOMAIN dists THEN [min_core_dist_km |-> dists[i]] @@ df[i] ELSE df[i]]

\* df_scored = score_geodata(df_merit), the step of the main sequence that
\* follows confirm_merit_sedar
ScoreGeodataCall ==
    /\ merit.pc = "done"
    /\ \E valid \in SUBSET (1..Len(merit.out)) :
        \E dists \in [valid -> ComputedDistances] :
            merit' = [pc |-> "scored", scored |-> ScoreGeodata(merit.out, dists)] @@ merit
    /\ UNCHANGED <<classifyVars, findVars, analyzeVars, fillVars, mtoVars, verifierVars,
                   labelVars, sessionVars, scan, autopilot>>

NextMerit == ConfirmMeritSedarCall \/ ScoreGeodataCall

SpecMerit == InitMerit /\ [][NextMerit]_vars

\* the merit score the three paths give a row
ScoreOfPath(row, lookup) ==
    IF ~IsPublicCompany(row.OWNER_NAME) THEN 0
    ELSE IF lookup.raises THEN RegexOnlyScore
    ELSE lookup.hits * ScorePerHit - CoreDistance(row)

\* C29: every row confirm_merit_sedar returns has recommend_stake 'yes' exactly
\* when its merit_score is above 50, and its merit_score is hits * 10 minus the
\* distance when the search answered, 10 when the search failed and 0 when the
\* owner is not a public company.
C29_StakeIffScoreAboveFifty ==
    merit.pc = "done" =>
        /\ Len(merit.out) = Len(merit.df)
        /\ \A i \in 1..Len(merit.out) :
            /\ merit.out[i].merit_score = ScoreOfPath(merit.df[i], merit.lookups[i])
            /\ merit.out[i].recommend_stake \in {"yes", "no"}
            /\ merit.out[i].recommend_stake = "yes" <=> merit.out[i].merit_score > 50

C29_Witness ==
    /\ merit.pc = "done"
    /\ Len(merit.out) = 2
    /\ merit.lookups[1] = LookupHits(6) /\ merit.lookups[2] = LookupHits(7)
    /\ CoreDistance(merit.df[1]) = 10 /\ CoreDistance(merit.df[2]) = 10
    /\ merit.out[1].merit_score = 50 /\ merit.out[1].recommend_stake = "no"
    /\ merit.out[2].merit_score = 60 /\ merit.out[2].recommend_stake = "yes"

\* C36: in every row confirm_merit_sedar returns, is_merit equals
\* is_public_company; neither the number of hits of the disclosure search nor
\* its failure changes it
C36_MeritIsPublicCompany ==
    merit.pc \in {"done", "scored"} =>
        \A i \in 1..Len(merit.out) :
            /\ merit.out[i].is_merit = merit.out[i].is_public_company
            /\ merit.out[i].is_merit = IsPublicCompany(merit.df[i].OWNER_NAME)

\* two public owners: the search found nothing for the first and raised for
\* the second, and both rows are of merit
C36_Witness ==
    /\ merit.pc = "done" /\ Len(merit.out) = 2
    /\ merit.lookups[1] = LookupHits(0) /\ merit.lookups[2] = LookupRaised
    /\ merit.out[1].is_merit /\ merit.out[2].is_merit

\* the rows whose distance score_geodata computed in this run
DistanceComputed ==
    {i \in 1..Len(merit.scored) :
        /\ "min_core_dist_km" \in DOMAIN merit.scored[i]
        /\ "min_core_dist_km" \in DOMAIN merit.out[i] =>
                merit.scored[i].min_core_dist_km # merit.out[i].min_core_dist_km}

\* C37: the main sequence computes min_core_dist_km, in score_geodata, only
\* after confirm_merit_sedar has set merit_score and recommend_stake: the
\* distance computed in a run leaves both as they were, and a row that came
\* without the column and whose search answered has a score of hits * 10
C37_DistanceComputedAfterScoring ==
    /\ [](merit.pc = "scored" =>
            /\ Len(merit.scored) = Len(merit.out)
            /\ \A i \in 1..Len(merit.scored) :
                /\ merit.scored[i].merit_score = merit.out[i].merit_score
                /\ merit.scored[i].recommend_stake = merit.out[i].recommend_stake
                /\ merit.scored[i].merit_score = ScoreOfPath(merit.df[i], merit.lookups[i]))
    /\ [](merit.pc \in {"done", "scored"} =>
            \A i \in 1..Len(merit.out) :
                (/\ "min_core_dist_km" \notin DOMAIN merit.df[i]
                 /\ merit.lookups[i].made /\ ~merit.lookups[i].raises) =>
                    merit.out[i].merit_score = merit.lookups[i].hits * 10)
    /\ [][merit'.pc = "scored" => merit.pc = "done"]_vars

\* a public owner's row came without the column and had six hits: it was scored
\* 60 and recommended, and the distance of 25 km computed afterwards left that
C37_Witness ==
    /\ merit.pc = "scored"
    /\ "min_core_dist_km" \notin DOMAIN merit.df[1]
    /\ merit.lookups[1] = LookupHits(6)
    /\ 1 \in DistanceComputed /\ merit.scored[1].min_core_dist_km = 25
    /\ merit.scored[1].merit_score = 60 /\ merit.scored[1].recommend_stake = "yes"

=============================================================================
